---- MODULE Spec2Model ----
(***************************************************************************)
(* State-machine model of the SalaryVault contract (contracts/SalaryVault  *)
(* in src/unnamed/part_000, lines 59-425).  Every external function is one *)
(* action; a call that reverts leaves the contract state unchanged (EVM    *)
(* atomicity), so each function has a ...Revert operator giving the reason *)
(* the code reverts with, evaluated in the order of the code's require     *)
(* statements, and its action is enabled exactly when that is NoRevert.    *)
(* Confidential handles (euint32) are modelled by their plaintext together *)
(* with whether the handle is initialized.  The decryption oracle is the   *)
(* environment: it keeps the ciphertext each request sent it.              *)
(* The CreditScore contract (src/unnamed/part_001) is modelled beside it:  *)
(* its external functions are the actions of the specification CreditSpec, *)
(* and calculateScore with its four select cascades is applied to metric   *)
(* values around every tier threshold under the specification ScoreSpec.   *)
(***************************************************************************)
EXTENDS Integers, Sequences, FiniteSets, TLC

\* ---------------------------------------------------------------- bounds
NumOwners == 2
MaxSalary == 1
MaxEntries == 2
MaxRequests == 2
\* how far around each tier threshold t the metric values are drawn:
\* t + 1 - MetricMargin .. t + MetricMargin
MetricMargin == 1
\* how many bytes beyond the fourth a cleartext handed to a callback may have
MaxTrailingBytes == 1

\* ------------------------------------------------------ program constants
MaxPositionLength == 100
MinCleartextLength == 4

\* ------------------------------------------------------ 32-bit arithmetic
\* A uint32 / euint32 plaintext is kept exactly, as two 16-bit limbs
\* << high, low >> (TLC's integers are 32-bit signed and cannot hold 2^32 - 1).
LimbBase == 2 ^ 16
ByteBase == 2 ^ 8
U32(high, low) == << high, low >>
Uint32Zero == U32(0, 0)
Uint32Max == U32(LimbBase - 1, LimbBase - 1)
\* a salary one below the largest: adding 1 still fits, adding more wraps
LargeSalary == U32(LimbBase - 1, LimbBase - 2)
\* a + b modulo 2^32
U32Add(a, b) ==
    LET low == a[2] + b[2]
        high == a[1] + b[1] + (low \div LimbBase)
    IN  U32(high % LimbBase, low % LimbBase)
\* a - b modulo 2^32
U32Sub(a, b) ==
    LET low == a[2] - b[2]
        borrow == IF low < 0 THEN 1 ELSE 0
        high == a[1] - b[1] - borrow
    IN  U32((high + LimbBase) % LimbBase, (low + LimbBase) % LimbBase)
\* floor(a / n) for a count 0 < n < 2^15, by long division over the limbs
U32Div(a, n) ==
    U32(a[1] \div n, (((a[1] % n) * LimbBase) + a[2]) \div n)

\* ---------------------------------------------------------- input domains
ZeroAddress == 0
Owners == 1 .. NumOwners
EntryIds == 0 .. (MaxEntries - 1)
RequestIds == 0 .. MaxRequests
SalaryValues == {U32(0, v) : v \in 1 .. MaxSalary} \cup {LargeSalary}

EmptyPosition == << >>
LongPosition == [i \in 1 .. (MaxPositionLength + 1) |-> "x"]
ValidPositions == {<<"A">>, <<"B">>}
PositionInputs == ValidPositions \cup {EmptyPosition, LongPosition}

\* keccak256(bytes(position)): an abstract digest, collision free on
\* PositionInputs and never bytes32(0)
ZeroHash == << >>
keccak256(position) ==
    << "keccak256", Len(position), IF Len(position) > 0 THEN position[1] ELSE "" >>
PositionHashes == {keccak256(p) : p \in PositionInputs}

\* ------------------------------------------------- confidential handles
\* euint32: the plaintext, and whether the handle is bytes32(0) (never
\* assigned, or deleted) or names a ciphertext.  FHE.add and FHE.sub read an
\* uninitialized operand as an encrypted 0.
NoHandle == [pt |-> Uint32Zero, kind |-> "uninitialized"]
FHE_fromExternal(value) == [pt |-> value, kind |-> "ciphertext"]
\* mutant: the sum stops at 2^32 - 1 instead of wrapping
FHE_add_saturating(a, b) ==
    [pt |-> IF a.pt[1] + b.pt[1] + ((a.pt[2] + b.pt[2]) \div LimbBase) >= LimbBase
            THEN Uint32Max ELSE U32Add(a.pt, b.pt),
     kind |-> "ciphertext"]
FHE_add(a, b) == [pt |-> U32Add(a.pt, b.pt), kind |-> "ciphertext"]
FHE_sub(a, b) == [pt |-> U32Sub(a.pt, b.pt), kind |-> "ciphertext"]

\* externalEuint32 + inputProof as supplied by a caller
\* the access-control list of a handle: the addresses FHE.allow and
\* FHE.allowThis have granted it to; salaryACL[id] is the list of the handle
\* stored in salaryEntries[id].encryptedSalary
ThisContract == NumOwners + 1
Principals == Owners \cup {ThisContract}

ExternalInputs == [value : SalaryValues, proofValid : BOOLEAN]

\* ------------------------------------------------------- cleartext bytes
\* big-endian bytes of a 32-bit value, as the callback's decoder expects
EncodeUint32(v) ==
    << v[1] \div ByteBase, v[1] % ByteBase, v[2] \div ByteBase, v[2] % ByteBase >>
\* mutant: the four bytes are read least significant first
DecodeCleartext_littleEndian(cleartexts) ==
    U32(cleartexts[4] * ByteBase + cleartexts[3], cleartexts[2] * ByteBase + cleartexts[1])
\* shr(224, mload(add(cleartexts, 32))): the first four bytes, big-endian
DecodeCleartext(cleartexts) ==
    U32(cleartexts[1] * ByteBase + cleartexts[2], cleartexts[3] * ByteBase + cleartexts[4])

NoRevert == "ok"

VARIABLES
    salaryEntries, entryCount, hasSubmitted, userEntryId, salaryACL,
    _encryptedTotalSalary, _activeEntryCount,
    _encryptedPositionTotal, _positionCount,
    _decryptedAverageSalary, _statsFinalized, _globalStatsRequest,
    _decryptedPositionAverage, _positionFinalized, _positionStatsRequest,
    decryptionOracle,
    creditProfiles, activeProfileCount, _decryptionRequests, _decryptedScores,
    _scoreFinalized, scoreOracle,
    callFrame

ledgerVars == << salaryEntries, entryCount, hasSubmitted, userEntryId, salaryACL >>
aggregateVars == << _encryptedTotalSalary, _activeEntryCount,
                    _encryptedPositionTotal, _positionCount >>
globalStatsVars == << _decryptedAverageSalary, _statsFinalized, _globalStatsRequest >>
positionStatsVars == << _decryptedPositionAverage, _positionFinalized, _positionStatsRequest >>
vaultVars == << ledgerVars, aggregateVars, globalStatsVars, positionStatsVars,
                decryptionOracle >>
\* the state of the CreditScore contract (src/unnamed/part_001)
creditVars == << creditProfiles, activeProfileCount, _decryptionRequests,
                 _decryptedScores, _scoreFinalized, scoreOracle >>
\* the callback being executed statement by statement (under CallbackSpec
\* only): its function, arguments, position and the events emitted so far
NoFrame == [fn |-> "none"]
vars == << vaultVars, creditVars, callFrame >>

\* SalaryEntry; its timestamp field (block.timestamp, written at lines 132 and
\* 201 and read by no function's logic) is left out
NoEntry == [submitter |-> ZeroAddress, position |-> EmptyPosition,
            encryptedSalary |-> NoHandle, isActive |-> FALSE]

VaultInit ==
    /\ salaryEntries = [id \in EntryIds |-> NoEntry]
    /\ salaryACL = [id \in EntryIds |-> {}]
    /\ entryCount = 0
    /\ hasSubmitted = [o \in Owners |-> FALSE]
    /\ userEntryId = [o \in Owners |-> 0]
    /\ _encryptedTotalSalary = NoHandle
    /\ _activeEntryCount = 0
    /\ _encryptedPositionTotal = [h \in PositionHashes |-> NoHandle]
    /\ _positionCount = [h \in PositionHashes |-> 0]
    /\ _decryptedAverageSalary = Uint32Zero
    /\ _statsFinalized = FALSE
    /\ _globalStatsRequest = [r \in RequestIds |-> FALSE]
    /\ _decryptedPositionAverage = [h \in PositionHashes |-> Uint32Zero]
    /\ _positionFinalized = [h \in PositionHashes |-> FALSE]
    /\ _positionStatsRequest = [r \in RequestIds |-> ZeroHash]
    /\ decryptionOracle = << >>

\* ------------------------------------------------------------ submitSalary
\* mutant: the duplicate-submission check is missing
submitSalaryRevert_noDuplicateCheck(sender, input, position) ==
    IF ~(Len(position) > 0) THEN "Position cannot be empty"
    ELSE IF ~(Len(position) <= MaxPositionLength) THEN "Position too long"
    ELSE IF ~input.proofValid THEN "Invalid input proof"
    ELSE NoRevert
\* mutant: the upper bound on the position's length is missing
submitSalaryRevert_noLengthCheck(sender, input, position) ==
    IF hasSubmitted[sender] THEN "Already submitted"
    ELSE IF ~(Len(position) > 0) THEN "Position cannot be empty"
    ELSE IF ~input.proofValid THEN "Invalid input proof"
    ELSE NoRevert
submitSalaryRevert(sender, input, position) ==
    IF hasSubmitted[sender] THEN "Already submitted"
    ELSE IF ~(Len(position) > 0) THEN "Position cannot be empty"
    ELSE IF ~(Len(position) <= MaxPositionLength) THEN "Position too long"
    ELSE IF ~input.proofValid THEN "Invalid input proof"
    ELSE NoRevert

\* lines 140-144: the first contribution seeds the total
submitTotal(salary) ==
    IF _activeEntryCount = 0 THEN salary ELSE FHE_add(_encryptedTotalSalary, salary)

\* lines 149-153 and 206-210: the first contribution seeds the position total
addPositionTotal(total, count, salary) ==
    IF count = 0 THEN salary ELSE FHE_add(total, salary)

\* mutant: the id of the entry created last is handed out again
newEntryId_lastReused == IF entryCount = 0 THEN 0 ELSE entryCount - 1
\* line 127: uint256 entryId = entryCount++
newEntryId == entryCount

\* mutant: the submitter is not granted the new handle
allowSalary_thisOnly(sender) == {ThisContract}
\* lines 157-158 and 214-215: FHE.allowThis(salary); FHE.allow(salary,
\* msg.sender) on the handle FHE.fromExternal has just produced.  The
\* FHE.allowThis calls on the bucket sums (lines 159-160, 216-221, 246, 252)
\* grant the contract only; where a sum is the seeding entry's own handle they
\* repeat line 157.
allowSalary(sender) == {ThisContract, sender}

submitSalary(sender, input, position) ==
    LET salary == FHE_fromExternal(input.value)
        entryId == newEntryId
        positionHash == keccak256(position)
    IN  /\ submitSalaryRevert(sender, input, position) = NoRevert
        /\ entryCount < MaxEntries
        /\ entryCount' = entryCount + 1
        /\ salaryEntries' = [salaryEntries EXCEPT ![entryId] =
                [submitter |-> sender, position |-> position, encryptedSalary |-> salary,
                 isActive |-> TRUE]]
        /\ hasSubmitted' = [hasSubmitted EXCEPT ![sender] = TRUE]
        /\ userEntryId' = [userEntryId EXCEPT ![sender] = entryId]
        /\ salaryACL' = [salaryACL EXCEPT ![entryId] = allowSalary(sender)]
        /\ _encryptedTotalSalary' = submitTotal(salary)
        /\ _activeEntryCount' = _activeEntryCount + 1
        /\ _encryptedPositionTotal' = [_encryptedPositionTotal EXCEPT ![positionHash] =
                addPositionTotal(@, _positionCount[positionHash], salary)]
        /\ _positionCount' = [_positionCount EXCEPT ![positionHash] = @ + 1]
        /\ UNCHANGED << globalStatsVars, positionStatsVars, decryptionOracle >>

\* ------------------------------------------------------------ updateSalary
ArithmeticPanic == "Panic(0x11)"

\* mutant: the caller's submitted flag is not checked
updateSalaryRevert_noEntryCheck(sender, input, newPosition) ==
    LET entry == salaryEntries[userEntryId[sender]]
    IN  IF ~(Len(newPosition) > 0) THEN "Position cannot be empty"
        ELSE IF ~(Len(newPosition) <= MaxPositionLength) THEN "Position too long"
        ELSE IF ~entry.isActive THEN "Entry not active"
        ELSE IF ~input.proofValid THEN "Invalid input proof"
        ELSE IF _positionCount[keccak256(entry.position)] = 0 THEN ArithmeticPanic
        ELSE NoRevert
updateSalaryRevert(sender, input, newPosition) ==
    LET entry == salaryEntries[userEntryId[sender]]
    IN  IF ~hasSubmitted[sender] THEN "No entry to update"
        ELSE IF ~(Len(newPosition) > 0) THEN "Position cannot be empty"
        ELSE IF ~(Len(newPosition) <= MaxPositionLength) THEN "Position too long"
        ELSE IF ~entry.isActive THEN "Entry not active"
        ELSE IF ~input.proofValid THEN "Invalid input proof"
        ELSE IF _positionCount[keccak256(entry.position)] = 0 THEN ArithmeticPanic
        ELSE NoRevert

\* mutant: the position total is kept when its count reaches zero
removePositionTotal_kept(total, count, salary) == FHE_sub(total, salary)
\* lines 190-196 and 240-247: subtract, decrement, delete the total at zero
removePositionTotal(total, count, salary) ==
    IF count - 1 = 0 THEN NoHandle ELSE FHE_sub(total, salary)

\* mutant: the old position's count is not decremented
removePositionCount_unchanged(counts, positionHash) == counts
\* lines 191 and 241: _positionCount[positionHash]--
removePositionCount(counts, positionHash) == [counts EXCEPT ![positionHash] = @ - 1]

\* mutant: the old salary is not subtracted from the global total
updateTotal_noSubtract(oldSalary, newSalary) == FHE_add(_encryptedTotalSalary, newSalary)
\* lines 188 and 204: the global total is subtracted from and added to
updateTotal(oldSalary, newSalary) ==
    FHE_add(FHE_sub(_encryptedTotalSalary, oldSalary), newSalary)

updateSalary(sender, input, newPosition) ==
    LET entryId == userEntryId[sender]
        entry == salaryEntries[entryId]
        newSalary == FHE_fromExternal(input.value)
        oldEncryptedSalary == entry.encryptedSalary
        oldPositionHash == keccak256(entry.position)
        newPositionHash == keccak256(newPosition)
        totalsAfterRemove == [_encryptedPositionTotal EXCEPT ![oldPositionHash] =
                removePositionTotal(@, _positionCount[oldPositionHash], oldEncryptedSalary)]
        countsAfterRemove == removePositionCount(_positionCount, oldPositionHash)
    IN  /\ updateSalaryRevert(sender, input, newPosition) = NoRevert
        /\ salaryEntries' = [salaryEntries EXCEPT ![entryId] =
                [@ EXCEPT !.encryptedSalary = newSalary, !.position = newPosition]]
        /\ salaryACL' = [salaryACL EXCEPT ![entryId] = allowSalary(sender)]
        /\ _encryptedTotalSalary' = updateTotal(oldEncryptedSalary, newSalary)
        /\ _encryptedPositionTotal' = [totalsAfterRemove EXCEPT ![newPositionHash] =
                addPositionTotal(@, countsAfterRemove[newPositionHash], newSalary)]
        /\ _positionCount' = [countsAfterRemove EXCEPT ![newPositionHash] = @ + 1]
        /\ UNCHANGED << entryCount, hasSubmitted, userEntryId, _activeEntryCount,
                        globalStatsVars, positionStatsVars, decryptionOracle >>

\* ------------------------------------------------------------ deleteSalary
\* mutant: the caller's submitted flag is not checked
deleteSalaryRevert_noEntryCheck(sender) ==
    LET entry == salaryEntries[userEntryId[sender]]
    IN  IF ~entry.isActive THEN "Entry already deleted"
        ELSE IF _activeEntryCount = 0 THEN ArithmeticPanic
        ELSE IF _positionCount[keccak256(entry.position)] = 0 THEN ArithmeticPanic
        ELSE NoRevert
deleteSalaryRevert(sender) ==
    LET entry == salaryEntries[userEntryId[sender]]
    IN  IF ~hasSubmitted[sender] THEN "No entry to delete"
        ELSE IF ~entry.isActive THEN "Entry already deleted"
        ELSE IF _activeEntryCount = 0 THEN ArithmeticPanic
        ELSE IF _positionCount[keccak256(entry.position)] = 0 THEN ArithmeticPanic
        ELSE NoRevert

\* line 236: the global total is only subtracted from, never deleted
deleteTotal(salary) == FHE_sub(_encryptedTotalSalary, salary)

\* mutant: a delete takes two off the active entry count
deleteActiveCount_twice == _activeEntryCount - 2
\* mutant: the active entry count is not decremented
deleteActiveCount_unchanged == _activeEntryCount
\* line 237: _activeEntryCount--
deleteActiveCount == _activeEntryCount - 1

deleteSalary(sender) ==
    LET entryId == userEntryId[sender]
        entry == salaryEntries[entryId]
        positionHash == keccak256(entry.position)
    IN  /\ deleteSalaryRevert(sender) = NoRevert
        /\ _encryptedTotalSalary' = deleteTotal(entry.encryptedSalary)
        /\ _activeEntryCount' = deleteActiveCount
        /\ _encryptedPositionTotal' = [_encryptedPositionTotal EXCEPT ![positionHash] =
                removePositionTotal(@, _positionCount[positionHash], entry.encryptedSalary)]
        /\ _positionCount' = removePositionCount(_positionCount, positionHash)
        /\ salaryEntries' = [salaryEntries EXCEPT ![entryId].isActive = FALSE]
        /\ hasSubmitted' = [hasSubmitted EXCEPT ![sender] = FALSE]
        /\ UNCHANGED << entryCount, userEntryId, salaryACL, globalStatsVars,
                        positionStatsVars, decryptionOracle >>

\* ------------------------------------------------------ requestGlobalStats
\* mutant: a finalized key still accepts requests
requestGlobalStatsRevert_noFinalizedCheck ==
    IF ~(_activeEntryCount > 0) THEN "No data to decrypt" ELSE NoRevert
requestGlobalStatsRevert ==
    IF ~(_activeEntryCount > 0) THEN "No data to decrypt"
    ELSE IF _statsFinalized THEN "Stats already finalized"
    ELSE NoRevert

\* FHE.requestDecryption: the oracle keeps the ciphertext it was sent and
\* returns the next value of its request counter (never 0)
FHE_requestDecryption(ct) == Append(decryptionOracle, ct)
\* once a callback for a request id has been accepted the oracle is done with
\* the request and drops its ciphertext
Fulfilled == [pt |-> Uint32Zero, kind |-> "fulfilled"]
OracleFulfil(requestId) == [decryptionOracle EXCEPT ![requestId] = Fulfilled]
IssuedRequestId(oracle) == Len(oracle)

requestGlobalStats ==
    LET requestId == IssuedRequestId(decryptionOracle')
    IN  /\ requestGlobalStatsRevert = NoRevert
        /\ Len(decryptionOracle) < MaxRequests
        /\ decryptionOracle' = FHE_requestDecryption(_encryptedTotalSalary)
        /\ requestId > 0
        /\ _globalStatsRequest' = [_globalStatsRequest EXCEPT ![requestId] = TRUE]
        /\ UNCHANGED << ledgerVars, aggregateVars, _decryptedAverageSalary, _statsFinalized,
                        positionStatsVars >>

\* ----------------------------------------------------- globalStatsCallback
\* mutant: the callback does not look at the finalized flag
globalStatsCallbackRevert_noFinalizedCheck(requestId, cleartexts) ==
    IF ~_globalStatsRequest[requestId] THEN "Invalid request"
    ELSE IF ~(_activeEntryCount > 0) THEN "No active entries"
    ELSE IF ~(Len(cleartexts) >= MinCleartextLength) THEN "Invalid cleartext length"
    ELSE NoRevert
\* mutant: no cleartext the oracle can send is long enough
globalStatsCallbackRevert_lengthNeverEnough(requestId, cleartexts) ==
    IF ~_globalStatsRequest[requestId] THEN "Invalid request"
    ELSE IF _statsFinalized THEN "Already finalized"
    ELSE IF ~(_activeEntryCount > 0) THEN "No active entries"
    ELSE "Invalid cleartext length"
globalStatsCallbackRevert(requestId, cleartexts) ==
    IF ~_globalStatsRequest[requestId] THEN "Invalid request"
    ELSE IF _statsFinalized THEN "Already finalized"
    ELSE IF ~(_activeEntryCount > 0) THEN "No active entries"
    ELSE IF ~(Len(cleartexts) >= MinCleartextLength) THEN "Invalid cleartext length"
    ELSE NoRevert

\* mutant: the total is divided by the number of entries ever created
globalAverage_byEntryCount(totalSalary) == U32Div(totalSalary, entryCount)
\* line 328: unsigned 32-bit integer division
globalAverage(totalSalary) == U32Div(totalSalary, _activeEntryCount)

\* mutant: every recorded global request id is cleared
clearGlobalRequest_all(requestId) == [r \in RequestIds |-> FALSE]
\* mutant: the request id is not cleared
clearGlobalRequest_kept(requestId) == _globalStatsRequest
\* line 332: delete _globalStatsRequest[requestId]
clearGlobalRequest(requestId) == [_globalStatsRequest EXCEPT ![requestId] = FALSE]

globalStatsCallback(requestId, cleartexts) ==
    LET totalSalary == DecodeCleartext(cleartexts)
    IN  /\ globalStatsCallbackRevert(requestId, cleartexts) = NoRevert
        /\ _decryptedAverageSalary' = globalAverage(totalSalary)
        /\ _statsFinalized' = TRUE
        /\ _globalStatsRequest' = clearGlobalRequest(requestId)
        /\ decryptionOracle' = OracleFulfil(requestId)
        /\ UNCHANGED << ledgerVars, aggregateVars, positionStatsVars >>

\* ---------------------------------------------------- requestPositionStats
\* mutant: a position without entries still accepts requests
requestPositionStatsRevert_noDataCheck(position) ==
    IF ~(Len(position) > 0) THEN "Position cannot be empty"
    ELSE IF _positionFinalized[keccak256(position)] THEN "Position stats already finalized"
    ELSE NoRevert
requestPositionStatsRevert(position) ==
    IF ~(Len(position) > 0) THEN "Position cannot be empty"
    ELSE IF ~(_positionCount[keccak256(position)] > 0) THEN "No data for this position"
    ELSE IF _positionFinalized[keccak256(position)] THEN "Position stats already finalized"
    ELSE NoRevert

requestPositionStats(position) ==
    LET positionHash == keccak256(position)
        requestId == IssuedRequestId(decryptionOracle')
    IN  /\ requestPositionStatsRevert(position) = NoRevert
        /\ Len(decryptionOracle) < MaxRequests
        /\ decryptionOracle' = FHE_requestDecryption(_encryptedPositionTotal[positionHash])
        /\ requestId > 0
        /\ _positionStatsRequest' = [_positionStatsRequest EXCEPT ![requestId] = positionHash]
        /\ UNCHANGED << ledgerVars, aggregateVars, globalStatsVars,
                        _decryptedPositionAverage, _positionFinalized >>

\* --------------------------------------------------- positionStatsCallback
positionStatsCallbackRevert(requestId, cleartexts) ==
    LET positionHash == _positionStatsRequest[requestId]
    IN  IF positionHash = ZeroHash THEN "Invalid request"
        ELSE IF _positionFinalized[positionHash] THEN "Already finalized"
        ELSE IF ~(_positionCount[positionHash] > 0) THEN "No data"
        ELSE IF ~(Len(cleartexts) >= MinCleartextLength) THEN "Invalid cleartext length"
        ELSE NoRevert

\* lines 371-372
positionAverage(totalSalary, count) ==
    IF count > 0 THEN U32Div(totalSalary, count) ELSE Uint32Zero

\* line 376: delete _positionStatsRequest[requestId]
clearPositionRequest(requestId) == [_positionStatsRequest EXCEPT ![requestId] = ZeroHash]

positionStatsCallback(requestId, cleartexts) ==
    LET positionHash == _positionStatsRequest[requestId]
        totalSalary == DecodeCleartext(cleartexts)
    IN  /\ positionStatsCallbackRevert(requestId, cleartexts) = NoRevert
        /\ _decryptedPositionAverage' = [_decryptedPositionAverage EXCEPT ![positionHash] =
                positionAverage(totalSalary, _positionCount[positionHash])]
        /\ _positionFinalized' = [_positionFinalized EXCEPT ![positionHash] = TRUE]
        /\ _positionStatsRequest' = clearPositionRequest(requestId)
        /\ decryptionOracle' = OracleFulfil(requestId)
        /\ UNCHANGED << ledgerVars, aggregateVars, globalStatsVars >>

\* ------------------------------------------------------------------- views
\* getEntry: position, submitter, isActive (the timestamp is left out)
getEntry(entryId) ==
    << salaryEntries[entryId].position, salaryEntries[entryId].submitter,
       salaryEntries[entryId].isActive >>
getActiveEntryCount == _activeEntryCount
getEntryCount == entryCount
getEncryptedStats == << _encryptedTotalSalary, _activeEntryCount >>
getEncryptedPositionStats(position) ==
    << _encryptedPositionTotal[keccak256(position)], _positionCount[keccak256(position)] >>
isStatsFinalized == _statsFinalized
isPositionStatsFinalized(position) == _positionFinalized[keccak256(position)]
getGlobalStats == << _decryptedAverageSalary, _activeEntryCount >>
getPositionStats(position) ==
    << _decryptedPositionAverage[keccak256(position)], _positionCount[keccak256(position)] >>

\* ------------------------------------------------------------ environment
\* what the decryption oracle answers for a request: the plaintext of the
\* ciphertext it was sent, as big-endian bytes
OracleCleartext(requestId) == EncodeUint32(decryptionOracle[requestId].pt)
PendingAtOracle == {r \in 1 .. Len(decryptionOracle) : decryptionOracle[r].kind # "fulfilled"}
ShortCleartext == << 0, 0, 1 >>
ForgedCleartext == << 0, 0, 0, 1, 255 >>
\* the callbacks are public and check no signature: any caller, any bytes;
\* the oracle itself answers a request it was sent with that request's id
CleartextInputs(requestId) ==
    {OracleCleartext(r) : r \in {requestId} \cap PendingAtOracle}
        \cup {ShortCleartext, ForgedCleartext}

\* ============================================================ CreditScore
\* The CreditScore contract (src/unnamed/part_001): one profile of four
\* confidential metrics per owner, and a score computed from them by four
\* select cascades.

\* CreditProfile; its timestamp field is left out
NoProfile == [encryptedIncome |-> NoHandle, encryptedRepaymentRate |-> NoHandle,
              encryptedDebtRatio |-> NoHandle, encryptedCreditHistory |-> NoHandle,
              encryptedScore |-> NoHandle, owner |-> ZeroAddress,
              isActive |-> FALSE, scoreCalculated |-> FALSE]

\* FHE.asEuint32: a trivially encrypted constant
FHE_asEuint32(value) ==
    [pt |-> U32(value \div LimbBase, value % LimbBase), kind |-> "ciphertext"]
\* FHE.gt: unsigned 32-bit comparison; the plaintext of the resulting ebool
FHE_gt(a, b) == a.pt[1] > b.pt[1] \/ (a.pt[1] = b.pt[1] /\ a.pt[2] > b.pt[2])
\* FHE.select(condition, ifTrue, ifFalse)
FHE_select(condition, ifTrue, ifFalse) ==
    [pt |-> IF condition THEN ifTrue.pt ELSE ifFalse.pt, kind |-> "ciphertext"]

\* mutant: the first income tier is compared with 1500 instead of 1499
_calculateIncomeScore_firstTierShifted(income) ==
    LET score0 == FHE_asEuint32(25)
        score1 == FHE_select(FHE_gt(income, FHE_asEuint32(1500)), FHE_asEuint32(50), score0)
        score2 == FHE_select(FHE_gt(income, FHE_asEuint32(2999)), FHE_asEuint32(100), score1)
        score3 == FHE_select(FHE_gt(income, FHE_asEuint32(4999)), FHE_asEuint32(150), score2)
        score4 == FHE_select(FHE_gt(income, FHE_asEuint32(7499)), FHE_asEuint32(200), score3)
    IN  FHE_select(FHE_gt(income, FHE_asEuint32(9999)), FHE_asEuint32(250), score4)
_calculateIncomeScore(income) ==
    LET score0 == FHE_asEuint32(25)
        tier1 == FHE_gt(income, FHE_asEuint32(1499))
        score1 == FHE_select(tier1, FHE_asEuint32(50), score0)
        tier2 == FHE_gt(income, FHE_asEuint32(2999))
        score2 == FHE_select(tier2, FHE_asEuint32(100), score1)
        tier3 == FHE_gt(income, FHE_asEuint32(4999))
        score3 == FHE_select(tier3, FHE_asEuint32(150), score2)
        tier4 == FHE_gt(income, FHE_asEuint32(7499))
        score4 == FHE_select(tier4, FHE_asEuint32(200), score3)
        tier5 == FHE_gt(income, FHE_asEuint32(9999))
        score5 == FHE_select(tier5, FHE_asEuint32(250), score4)
    IN  score5

_calculateRepaymentScore(repaymentRate) ==
    LET score0 == FHE_asEuint32(100)
        tier1 == FHE_gt(repaymentRate, FHE_asEuint32(59))
        score1 == FHE_select(tier1, FHE_asEuint32(150), score0)
        tier2 == FHE_gt(repaymentRate, FHE_asEuint32(69))
        score2 == FHE_select(tier2, FHE_asEuint32(200), score1)
        tier3 == FHE_gt(repaymentRate, FHE_asEuint32(79))
        score3 == FHE_select(tier3, FHE_asEuint32(250), score2)
        tier4 == FHE_gt(repaymentRate, FHE_asEuint32(89))
        score4 == FHE_select(tier4, FHE_asEuint32(300), score3)
        tier5 == FHE_gt(repaymentRate, FHE_asEuint32(94))
        score5 == FHE_select(tier5, FHE_asEuint32(350), score4)
    IN  score5

\* mutant: the debt score is 250 minus the ratio instead of a tier value
_calculateDebtScore_linear(debtRatio) == FHE_sub(FHE_asEuint32(250), debtRatio)
_calculateDebtScore(debtRatio) ==
    LET score0 == FHE_asEuint32(250)
        tier1 == FHE_gt(debtRatio, FHE_asEuint32(19))
        score1 == FHE_select(tier1, FHE_asEuint32(200), score0)
        tier2 == FHE_gt(debtRatio, FHE_asEuint32(29))
        score2 == FHE_select(tier2, FHE_asEuint32(150), score1)
        tier3 == FHE_gt(debtRatio, FHE_asEuint32(39))
        score3 == FHE_select(tier3, FHE_asEuint32(100), score2)
        tier4 == FHE_gt(debtRatio, FHE_asEuint32(49))
        score4 == FHE_select(tier4, FHE_asEuint32(50), score3)
        tier5 == FHE_gt(debtRatio, FHE_asEuint32(64))
        score5 == FHE_select(tier5, FHE_asEuint32(25), score4)
    IN  score5

_calculateHistoryScore(history) ==
    LET score0 == FHE_asEuint32(10)
        tier1 == FHE_gt(history, FHE_asEuint32(11))
        score1 == FHE_select(tier1, FHE_asEuint32(30), score0)
        tier2 == FHE_gt(history, FHE_asEuint32(35))
        score2 == FHE_select(tier2, FHE_asEuint32(60), score1)
        tier3 == FHE_gt(history, FHE_asEuint32(59))
        score3 == FHE_select(tier3, FHE_asEuint32(90), score2)
        tier4 == FHE_gt(history, FHE_asEuint32(83))
        score4 == FHE_select(tier4, FHE_asEuint32(120), score3)
        tier5 == FHE_gt(history, FHE_asEuint32(119))
        score5 == FHE_select(tier5, FHE_asEuint32(150), score4)
    IN  score5

\* ---------------------------------------------------------- calculateScore
\* mutant: a calculated score may be calculated again
calculateScoreRevert_noCalculatedCheck(sender) ==
    IF ~creditProfiles[sender].isActive THEN "No active profile found" ELSE NoRevert
calculateScoreRevert(sender) ==
    LET profile == creditProfiles[sender]
    IN  IF ~profile.isActive THEN "No active profile found"
        ELSE IF profile.scoreCalculated THEN "Score already calculated"
        ELSE NoRevert

\* lines 119-136: the four tier scores and their sum
totalScore(profile) ==
    LET incomeScore == _calculateIncomeScore(profile.encryptedIncome)
        repaymentScore == _calculateRepaymentScore(profile.encryptedRepaymentRate)
        debtScore == _calculateDebtScore(profile.encryptedDebtRatio)
        historyScore == _calculateHistoryScore(profile.encryptedCreditHistory)
    IN  FHE_add(FHE_add(FHE_add(incomeScore, repaymentScore), debtScore), historyScore)

calculateScore(sender) ==
    LET profile == creditProfiles[sender]
    IN  /\ calculateScoreRevert(sender) = NoRevert
        /\ creditProfiles' = [creditProfiles EXCEPT ![sender] =
                [@ EXCEPT !.encryptedScore = totalScore(profile), !.scoreCalculated = TRUE]]
        /\ UNCHANGED << activeProfileCount, _decryptionRequests, _decryptedScores,
                        _scoreFinalized, scoreOracle >>
        /\ UNCHANGED vaultVars

\* ----------------------------------------------------------- createProfile
\* the four externalEuint32 metrics and their input proofs
createProfileRevert(sender, input) ==
    IF creditProfiles[sender].isActive
    THEN "Profile already exists. Use updateProfile instead"
    ELSE IF ~input.proofsValid THEN "Invalid input proof"
    ELSE NoRevert

\* lines 85-88 and 305-308: the four metrics are overwritten, the stored
\* score handle is not touched
storeMetrics(profile, input) ==
    [profile EXCEPT !.encryptedIncome = FHE_fromExternal(input.income),
                    !.encryptedRepaymentRate = FHE_fromExternal(input.repaymentRate),
                    !.encryptedDebtRatio = FHE_fromExternal(input.debtRatio),
                    !.encryptedCreditHistory = FHE_fromExternal(input.creditHistory)]

\* mutant: the active profile count is not incremented
createProfileCount_unchanged == activeProfileCount
\* line 105: activeProfileCount++
createProfileCount == activeProfileCount + 1

createProfile(sender, input) ==
    /\ createProfileRevert(sender, input) = NoRevert
    /\ creditProfiles' = [creditProfiles EXCEPT ![sender] =
            [storeMetrics(@, input) EXCEPT !.owner = sender, !.isActive = TRUE,
                                          !.scoreCalculated = FALSE]]
    /\ activeProfileCount' = createProfileCount
    /\ UNCHANGED << _decryptionRequests, _decryptedScores, _scoreFinalized, scoreOracle >>
    /\ UNCHANGED vaultVars

\* ----------------------------------------------------------- updateProfile
updateProfileRevert(sender, input) ==
    IF ~creditProfiles[sender].isActive THEN "No active profile found"
    ELSE IF ~input.proofsValid THEN "Invalid input proof"
    ELSE NoRevert

\* mutant: the finalized flag survives an update
updateFinalized_kept(sender) == _scoreFinalized
\* line 314: _scoreFinalized[msg.sender] = false
updateFinalized(sender) == [_scoreFinalized EXCEPT ![sender] = FALSE]

updateProfile(sender, input) ==
    /\ updateProfileRevert(sender, input) = NoRevert
    /\ creditProfiles' = [creditProfiles EXCEPT ![sender] =
            [storeMetrics(@, input) EXCEPT !.scoreCalculated = FALSE]]
    /\ _scoreFinalized' = updateFinalized(sender)
    /\ UNCHANGED << activeProfileCount, _decryptionRequests, _decryptedScores, scoreOracle >>
    /\ UNCHANGED vaultVars

\* ----------------------------------------------------------- deleteProfile
deleteProfileRevert(sender) ==
    IF ~creditProfiles[sender].isActive THEN "No active profile found"
    ELSE IF activeProfileCount = 0 THEN ArithmeticPanic
    ELSE NoRevert

deleteProfile(sender) ==
    /\ deleteProfileRevert(sender) = NoRevert
    /\ creditProfiles' = [creditProfiles EXCEPT ![sender].isActive = FALSE]
    /\ activeProfileCount' = activeProfileCount - 1
    /\ _scoreFinalized' = [_scoreFinalized EXCEPT ![sender] = FALSE]
    /\ UNCHANGED << _decryptionRequests, _decryptedScores, scoreOracle >>
    /\ UNCHANGED vaultVars

\* -------------------------------------------------- requestScoreDecryption
requestScoreDecryptionRevert(sender) ==
    LET profile == creditProfiles[sender]
    IN  IF ~profile.isActive THEN "No active profile found"
        ELSE IF ~profile.scoreCalculated
             THEN "Score not calculated yet. Call calculateScore first"
        ELSE IF _scoreFinalized[sender] THEN "Score already decrypted"
        ELSE NoRevert

requestScoreDecryption(sender) ==
    LET requestId == IssuedRequestId(scoreOracle')
    IN  /\ requestScoreDecryptionRevert(sender) = NoRevert
        /\ Len(scoreOracle) < MaxRequests
        /\ scoreOracle' = Append(scoreOracle, creditProfiles[sender].encryptedScore)
        /\ requestId > 0
        /\ _decryptionRequests' = [_decryptionRequests EXCEPT ![requestId] = sender]
        /\ UNCHANGED << creditProfiles, activeProfileCount, _decryptedScores,
                        _scoreFinalized >>
        /\ UNCHANGED vaultVars

\* ------------------------------------------------- scoreDecryptionCallback
MaxScore == 1000
\* score <= 1000 for a decoded 32-bit value
WithinMaxScore(score) == score[1] = 0 /\ score[2] <= MaxScore

scoreDecryptionCallbackRevert(requestId, cleartexts) ==
    LET owner == _decryptionRequests[requestId]
    IN  IF owner = ZeroAddress THEN "Invalid request"
        ELSE IF _scoreFinalized[owner] THEN "Already finalized"
        ELSE IF ~(Len(cleartexts) >= MinCleartextLength) THEN "Invalid cleartext length"
        ELSE IF ~WithinMaxScore(DecodeCleartext(cleartexts)) THEN "Score exceeds maximum"
        ELSE NoRevert

scoreDecryptionCallback(requestId, cleartexts) ==
    LET owner == _decryptionRequests[requestId]
        score == DecodeCleartext(cleartexts)
    IN  /\ scoreDecryptionCallbackRevert(requestId, cleartexts) = NoRevert
        /\ _decryptedScores' = [_decryptedScores EXCEPT ![owner] = score]
        /\ _scoreFinalized' = [_scoreFinalized EXCEPT ![owner] = TRUE]
        /\ _decryptionRequests' = [_decryptionRequests EXCEPT ![requestId] = ZeroAddress]
        /\ scoreOracle' = [scoreOracle EXCEPT ![requestId] = Fulfilled]
        /\ UNCHANGED << creditProfiles, activeProfileCount >>
        /\ UNCHANGED vaultVars

\* ------------------------------------------------------- CreditScore views
getProfile(user) == << creditProfiles[user].isActive, creditProfiles[user].scoreCalculated >>
hasProfile(user) == creditProfiles[user].isActive
isScoreFinalized(user) == _scoreFinalized[user]
getActiveProfileCount == activeProfileCount
getDecryptedScoreRevert(caller, user) ==
    IF ~_scoreFinalized[user] THEN "Score not available yet. Request decryption first"
    ELSE IF ~(caller = user) THEN "Can only view your own score"
    ELSE NoRevert
getDecryptedScore(user) == _decryptedScores[user]
getEncryptedScoreRevert(user) ==
    IF ~creditProfiles[user].isActive THEN "No active profile"
    ELSE IF ~creditProfiles[user].scoreCalculated THEN "Score not calculated"
    ELSE NoRevert
getEncryptedScore(user) == creditProfiles[user].encryptedScore

\* ========================================================= specifications
\* the CreditScore storage other than the profiles, after deployment
CreditStorageInit ==
    /\ _decryptionRequests = [r \in RequestIds |-> ZeroAddress]
    /\ _decryptedScores = [o \in Owners |-> Uint32Zero]
    /\ _scoreFinalized = [o \in Owners |-> FALSE]
    /\ scoreOracle = << >>

CreditInit ==
    /\ creditProfiles = [o \in Owners |-> NoProfile]
    /\ activeProfileCount = 0
    /\ CreditStorageInit

Init == VaultInit /\ CreditInit /\ callFrame = NoFrame

Next ==
    \/ \E sender \in Owners, input \in ExternalInputs, position \in PositionInputs :
          submitSalary(sender, input, position) /\ UNCHANGED << creditVars, callFrame >>
    \/ \E sender \in Owners, input \in ExternalInputs, position \in PositionInputs :
          updateSalary(sender, input, position) /\ UNCHANGED << creditVars, callFrame >>
    \/ \E sender \in Owners : deleteSalary(sender) /\ UNCHANGED << creditVars, callFrame >>
    \/ requestGlobalStats /\ UNCHANGED << creditVars, callFrame >>
    \/ \E requestId \in RequestIds : \E cleartexts \in CleartextInputs(requestId) :
          globalStatsCallback(requestId, cleartexts) /\ UNCHANGED << creditVars, callFrame >>
    \/ \E position \in PositionInputs : requestPositionStats(position) /\ UNCHANGED << creditVars, callFrame >>
    \/ \E requestId \in RequestIds : \E cleartexts \in CleartextInputs(requestId) :
          positionStatsCallback(requestId, cleartexts) /\ UNCHANGED << creditVars, callFrame >>

Spec == Init /\ [][Next]_vars

\* ------------------------------------------------ the score as a function
\* The thresholds the four cascades compare with, in the order of the code.
IncomeThresholds == << 1499, 2999, 4999, 7499, 9999 >>
RepaymentThresholds == << 59, 69, 79, 89, 94 >>
DebtThresholds == << 19, 29, 39, 49, 64 >>
HistoryThresholds == << 11, 35, 59, 83, 119 >>
\* the metrics of the repository's test-credit-score task
ExampleIncome == 6000
ExampleRepaymentRate == 92
ExampleDebtRatio == 25
ExampleCreditHistory == 36

\* metric values on both sides of every threshold, the smallest value, the
\* smallest value above 16 bits and the largest 32-bit value
BoundaryValues(thresholds) ==
    {U32(0, thresholds[i] + d) :
        i \in 1 .. Len(thresholds), d \in (1 - MetricMargin) .. MetricMargin}
ExtremeValues == {Uint32Zero, U32(1, 0), Uint32Max}
IncomeValues == BoundaryValues(IncomeThresholds) \cup ExtremeValues \cup {U32(0, ExampleIncome)}
RepaymentValues ==
    BoundaryValues(RepaymentThresholds) \cup ExtremeValues \cup {U32(0, ExampleRepaymentRate)}
DebtValues == BoundaryValues(DebtThresholds) \cup ExtremeValues \cup {U32(0, ExampleDebtRatio)}
HistoryValues ==
    BoundaryValues(HistoryThresholds) \cup ExtremeValues \cup {U32(0, ExampleCreditHistory)}

\* the profile createProfile stores for its caller (lines 83-92)
createdProfile(sender, income, repaymentRate, debtRatio, creditHistory) ==
    [encryptedIncome |-> FHE_fromExternal(income),
     encryptedRepaymentRate |-> FHE_fromExternal(repaymentRate),
     encryptedDebtRatio |-> FHE_fromExternal(debtRatio),
     encryptedCreditHistory |-> FHE_fromExternal(creditHistory),
     encryptedScore |-> NoHandle, owner |-> sender,
     isActive |-> TRUE, scoreCalculated |-> FALSE]

\* the score does not depend on who owns the profile: one owner has one
ProfileOwner == CHOOSE o \in Owners : TRUE

\* one owner has created a profile, with any of the metric values
ScoreInit ==
    /\ VaultInit
    /\ \E income \in IncomeValues, repaymentRate \in RepaymentValues,
          debtRatio \in DebtValues, creditHistory \in HistoryValues :
          creditProfiles = [o \in Owners |->
              IF o = ProfileOwner
              THEN createdProfile(o, income, repaymentRate, debtRatio, creditHistory)
              ELSE NoProfile]
    /\ activeProfileCount = 1
    /\ CreditStorageInit
    /\ callFrame = NoFrame

ScoreNext == \E sender \in Owners : calculateScore(sender) /\ UNCHANGED callFrame

ScoreSpec == ScoreInit /\ [][ScoreNext]_vars

\* ------------------------------------------------ the CreditScore contract
\* metrics a caller supplies: all zero (score 385), or the example values of
\* src/tasks/CreditScore.ts (score 710), with valid or invalid input proofs
MetricInputs ==
    {[income |-> Uint32Zero, repaymentRate |-> Uint32Zero, debtRatio |-> Uint32Zero,
      creditHistory |-> Uint32Zero],
     [income |-> U32(0, ExampleIncome), repaymentRate |-> U32(0, ExampleRepaymentRate),
      debtRatio |-> U32(0, ExampleDebtRatio), creditHistory |-> U32(0, ExampleCreditHistory)]}
ProfileInputs ==
    {[income |-> m.income, repaymentRate |-> m.repaymentRate, debtRatio |-> m.debtRatio,
      creditHistory |-> m.creditHistory, proofsValid |-> v] :
        m \in MetricInputs, v \in BOOLEAN}

\* what the oracle answers for a score request, and what anyone may send:
\* the callback is public and checks no signature
ScorePendingAtOracle == {r \in 1 .. Len(scoreOracle) : scoreOracle[r].kind # "fulfilled"}
OverMaxCleartext == EncodeUint32(U32(0, MaxScore + 1))
ScoreCleartextInputs(requestId) ==
    {EncodeUint32(scoreOracle[r].pt) : r \in {requestId} \cap ScorePendingAtOracle}
        \cup {ShortCleartext, ForgedCleartext, OverMaxCleartext}

CreditNext ==
    \/ \E sender \in Owners, input \in ProfileInputs :
          createProfile(sender, input) /\ UNCHANGED callFrame
    \/ \E sender \in Owners, input \in ProfileInputs :
          updateProfile(sender, input) /\ UNCHANGED callFrame
    \/ \E sender \in Owners : deleteProfile(sender) /\ UNCHANGED callFrame
    \/ \E sender \in Owners : calculateScore(sender) /\ UNCHANGED callFrame
    \/ \E sender \in Owners : requestScoreDecryption(sender) /\ UNCHANGED callFrame
    \/ \E requestId \in RequestIds : \E cleartexts \in ScoreCleartextInputs(requestId) :
          scoreDecryptionCallback(requestId, cleartexts) /\ UNCHANGED callFrame

CreditSpec == Init /\ [][CreditNext]_vars

\* ------------------------------------ the callbacks, statement by statement
\* The state-changing statements of an accepted callback, in source order
\* (SalaryVault lines 328, 331, 332, 334 and 372, 375, 376, 378; CreditScore
\* lines 382, 385, 386, 388).  Under CallbackSpec a callback is executed one
\* statement per step, so that the state an emitted event is observed in is a
\* state of the behaviour; nothing else runs while a callback is in progress.
\* mutant: the event is emitted before the state is written
globalStatsCallbackBody_emitFirst ==
    << "emit", "storeResult", "markFinalized", "deleteRequest" >>
globalStatsCallbackBody == << "storeResult", "markFinalized", "deleteRequest", "emit" >>
positionStatsCallbackBody == << "storeResult", "markFinalized", "deleteRequest", "emit" >>
scoreDecryptionCallbackBody == << "storeResult", "markFinalized", "deleteRequest", "emit" >>

\* the requires have passed and the locals are set: the decoded value, and
\* the key read from the request record (lines 359 and 369)
enterCallback(fn, requestId, key, cleartexts) ==
    /\ callFrame = NoFrame
    /\ callFrame' = [fn |-> fn, requestId |-> requestId, key |-> key,
                     value |-> DecodeCleartext(cleartexts), pc |-> 1, events |-> << >>]
    /\ UNCHANGED << vaultVars, creditVars >>

\* the statement at pc has been executed; an emit appends its event, with
\* the arguments it reads from storage
advance(stmt, event) ==
    callFrame' = [callFrame EXCEPT !.pc = @ + 1,
                                   !.events = IF stmt = "emit" THEN Append(@, event) ELSE @]

enterGlobalStatsCallback(requestId, cleartexts) ==
    /\ globalStatsCallbackRevert(requestId, cleartexts) = NoRevert
    /\ enterCallback("globalStatsCallback", requestId, "GLOBAL", cleartexts)

stepGlobalStatsCallback ==
    /\ callFrame.fn = "globalStatsCallback"
    /\ callFrame.pc <= Len(globalStatsCallbackBody)
    /\ LET stmt == globalStatsCallbackBody[callFrame.pc]
       IN  /\ _decryptedAverageSalary' =
                 IF stmt = "storeResult" THEN globalAverage(callFrame.value)
                 ELSE _decryptedAverageSalary
           /\ _statsFinalized' = IF stmt = "markFinalized" THEN TRUE ELSE _statsFinalized
           /\ _globalStatsRequest' =
                 IF stmt = "deleteRequest" THEN clearGlobalRequest(callFrame.requestId)
                 ELSE _globalStatsRequest
           /\ advance(stmt, [name |-> "StatsPublished", average |-> _decryptedAverageSalary,
                             count |-> _activeEntryCount])
    /\ UNCHANGED << ledgerVars, aggregateVars, positionStatsVars, decryptionOracle,
                    creditVars >>

returnGlobalStatsCallback ==
    /\ callFrame.fn = "globalStatsCallback"
    /\ callFrame.pc > Len(globalStatsCallbackBody)
    /\ callFrame' = NoFrame
    /\ decryptionOracle' = OracleFulfil(callFrame.requestId)
    /\ UNCHANGED << ledgerVars, aggregateVars, globalStatsVars, positionStatsVars,
                    creditVars >>

enterPositionStatsCallback(requestId, cleartexts) ==
    /\ positionStatsCallbackRevert(requestId, cleartexts) = NoRevert
    /\ enterCallback("positionStatsCallback", requestId, _positionStatsRequest[requestId],
                     cleartexts)

stepPositionStatsCallback ==
    /\ callFrame.fn = "positionStatsCallback"
    /\ callFrame.pc <= Len(positionStatsCallbackBody)
    /\ LET stmt == positionStatsCallbackBody[callFrame.pc]
           positionHash == callFrame.key
       IN  /\ _decryptedPositionAverage' =
                 IF stmt = "storeResult"
                 THEN [_decryptedPositionAverage EXCEPT ![positionHash] =
                          positionAverage(callFrame.value, _positionCount[positionHash])]
                 ELSE _decryptedPositionAverage
           /\ _positionFinalized' =
                 IF stmt = "markFinalized"
                 THEN [_positionFinalized EXCEPT ![positionHash] = TRUE]
                 ELSE _positionFinalized
           /\ _positionStatsRequest' =
                 IF stmt = "deleteRequest" THEN clearPositionRequest(callFrame.requestId)
                 ELSE _positionStatsRequest
           /\ advance(stmt, [name |-> "PositionStatsPublished",
                             average |-> _decryptedPositionAverage[positionHash],
                             count |-> _positionCount[positionHash]])
    /\ UNCHANGED << ledgerVars, aggregateVars, globalStatsVars, decryptionOracle,
                    creditVars >>

returnPositionStatsCallback ==
    /\ callFrame.fn = "positionStatsCallback"
    /\ callFrame.pc > Len(positionStatsCallbackBody)
    /\ callFrame' = NoFrame
    /\ decryptionOracle' = OracleFulfil(callFrame.requestId)
    /\ UNCHANGED << ledgerVars, aggregateVars, globalStatsVars, positionStatsVars,
                    creditVars >>

enterScoreDecryptionCallback(requestId, cleartexts) ==
    /\ scoreDecryptionCallbackRevert(requestId, cleartexts) = NoRevert
    /\ enterCallback("scoreDecryptionCallback", requestId, _decryptionRequests[requestId],
                     cleartexts)

stepScoreDecryptionCallback ==
    /\ callFrame.fn = "scoreDecryptionCallback"
    /\ callFrame.pc <= Len(scoreDecryptionCallbackBody)
    /\ LET stmt == scoreDecryptionCallbackBody[callFrame.pc]
           owner == callFrame.key
       IN  /\ _decryptedScores' =
                 IF stmt = "storeResult"
                 THEN [_decryptedScores EXCEPT ![owner] = callFrame.value]
                 ELSE _decryptedScores
           /\ _scoreFinalized' =
                 IF stmt = "markFinalized" THEN [_scoreFinalized EXCEPT ![owner] = TRUE]
                 ELSE _scoreFinalized
           /\ _decryptionRequests' =
                 IF stmt = "deleteRequest"
                 THEN [_decryptionRequests EXCEPT ![callFrame.requestId] = ZeroAddress]
                 ELSE _decryptionRequests
           \* line 388 emits the local score, not the stored one
           /\ advance(stmt, [name |-> "ScoreRevealed", average |-> callFrame.value,
                             count |-> 1])
    /\ UNCHANGED << creditProfiles, activeProfileCount, scoreOracle, vaultVars >>

returnScoreDecryptionCallback ==
    /\ callFrame.fn = "scoreDecryptionCallback"
    /\ callFrame.pc > Len(scoreDecryptionCallbackBody)
    /\ callFrame' = NoFrame
    /\ scoreOracle' = [scoreOracle EXCEPT ![callFrame.requestId] = Fulfilled]
    /\ UNCHANGED << creditProfiles, activeProfileCount, _decryptionRequests,
                    _decryptedScores, _scoreFinalized, vaultVars >>

\* The two contracts share no storage; CallbackSpec exercises one of them
\* per behaviour, with the calls that lead to a pending request.
VaultUntouched == entryCount = 0
CreditUntouched == activeProfileCount = 0 /\ scoreOracle = << >>
VaultTurn == callFrame = NoFrame /\ CreditUntouched
CreditTurn == callFrame = NoFrame /\ VaultUntouched

CallbackNext ==
    \/ \E sender \in Owners, input \in ExternalInputs, position \in PositionInputs :
          VaultTurn /\ submitSalary(sender, input, position)
              /\ UNCHANGED << creditVars, callFrame >>
    \/ VaultTurn /\ requestGlobalStats /\ UNCHANGED << creditVars, callFrame >>
    \/ \E position \in PositionInputs :
          VaultTurn /\ requestPositionStats(position) /\ UNCHANGED << creditVars, callFrame >>
    \/ \E requestId \in RequestIds : \E cleartexts \in CleartextInputs(requestId) :
          enterGlobalStatsCallback(requestId, cleartexts)
    \/ stepGlobalStatsCallback
    \/ returnGlobalStatsCallback
    \/ \E requestId \in RequestIds : \E cleartexts \in CleartextInputs(requestId) :
          enterPositionStatsCallback(requestId, cleartexts)
    \/ stepPositionStatsCallback
    \/ returnPositionStatsCallback
    \/ \E sender \in Owners, input \in ProfileInputs :
          CreditTurn /\ createProfile(sender, input) /\ UNCHANGED callFrame
    \/ \E sender \in Owners : CreditTurn /\ calculateScore(sender) /\ UNCHANGED callFrame
    \/ \E sender \in Owners :
          CreditTurn /\ requestScoreDecryption(sender) /\ UNCHANGED callFrame
    \/ \E requestId \in RequestIds : \E cleartexts \in ScoreCleartextInputs(requestId) :
          enterScoreDecryptionCallback(requestId, cleartexts)
    \/ stepScoreDecryptionCallback
    \/ returnScoreDecryptionCallback

CallbackSpec == Init /\ [][CallbackNext]_vars

\* ------------------------------------------------- decoding the cleartext
\* Cleartexts of 4 .. 4 + MaxTrailingBytes bytes over the byte values 0, 1,
\* 128 and 255, handed to the callback of the one pending request of a vault
\* that holds one entry: with count 1 the stored average is the decoded total.
DecodeBytes == {0, 1, ByteBase \div 2, ByteBase - 1}
DecodeInputs ==
    UNION {[1 .. n -> DecodeBytes] :
              n \in MinCleartextLength .. (MinCleartextLength + MaxTrailingBytes)}

\* the state after submitSalary(sender, 1, position) followed by
\* requestGlobalStats() or requestPositionStats(position)
DecodeInit ==
    \E sender \in Owners, position \in ValidPositions, global \in BOOLEAN :
        LET salary == FHE_fromExternal(U32(0, 1))
            positionHash == keccak256(position)
        IN  /\ salaryEntries = [id \in EntryIds |->
                  IF id = 0
                  THEN [submitter |-> sender, position |-> position,
                        encryptedSalary |-> salary, isActive |-> TRUE]
                  ELSE NoEntry]
            /\ salaryACL = [id \in EntryIds |-> IF id = 0 THEN allowSalary(sender) ELSE {}]
            /\ entryCount = 1
            /\ hasSubmitted = [o \in Owners |-> o = sender]
            /\ userEntryId = [o \in Owners |-> 0]
            /\ _encryptedTotalSalary = salary
            /\ _activeEntryCount = 1
            /\ _encryptedPositionTotal =
                  [h \in PositionHashes |-> IF h = positionHash THEN salary ELSE NoHandle]
            /\ _positionCount = [h \in PositionHashes |-> IF h = positionHash THEN 1 ELSE 0]
            /\ _decryptedAverageSalary = Uint32Zero
            /\ _statsFinalized = FALSE
            /\ _globalStatsRequest = [r \in RequestIds |-> r = 1 /\ global]
            /\ _decryptedPositionAverage = [h \in PositionHashes |-> Uint32Zero]
            /\ _positionFinalized = [h \in PositionHashes |-> FALSE]
            /\ _positionStatsRequest =
                  [r \in RequestIds |-> IF r = 1 /\ ~global THEN positionHash ELSE ZeroHash]
            /\ decryptionOracle = << salary >>
            /\ CreditInit
            /\ callFrame = NoFrame

DecodeNext ==
    \/ \E requestId \in RequestIds, cleartexts \in DecodeInputs :
          globalStatsCallback(requestId, cleartexts) /\ UNCHANGED << creditVars, callFrame >>
    \/ \E requestId \in RequestIds, cleartexts \in DecodeInputs :
          positionStatsCallback(requestId, cleartexts) /\ UNCHANGED << creditVars, callFrame >>

DecodeSpec == DecodeInit /\ [][DecodeNext]_vars

\* ------------------------------------------------- an oracle that delivers
\* The oracle's side of a request: it calls the callback of request id
\* requestId with a cleartext of at least 4 bytes.  The oracle keeps trying,
\* so a delivery that stays possible eventually happens (weak fairness); the
\* callers of the ledger functions are under no obligation.
GlobalDelivery(requestId) ==
    \E cleartexts \in CleartextInputs(requestId) :
        /\ Len(cleartexts) >= MinCleartextLength
        /\ globalStatsCallback(requestId, cleartexts)
        /\ UNCHANGED << creditVars, callFrame >>
PositionDelivery(requestId) ==
    \E cleartexts \in CleartextInputs(requestId) :
        /\ Len(cleartexts) >= MinCleartextLength
        /\ positionStatsCallback(requestId, cleartexts)
        /\ UNCHANGED << creditVars, callFrame >>

LiveSpec ==
    /\ Init
    /\ [][Next]_vars
    /\ \A requestId \in RequestIds :
          WF_vars(GlobalDelivery(requestId)) /\ WF_vars(PositionDelivery(requestId))

\* ================================================================ claims
\* Reference notions, computed from the entry records alone.
ActiveEntries == {id \in EntryIds : salaryEntries[id].isActive}
ActiveEntriesOf(owner) == {id \in ActiveEntries : salaryEntries[id].submitter = owner}
ActiveEntriesAt(position) == {id \in ActiveEntries : salaryEntries[id].position = position}
OwnersWithActiveEntry == {o \in Owners : ActiveEntriesOf(o) # {}}

\* The arithmetic (unbounded) sum of the plaintext salaries of a set of
\* entries, as limbs << overflow, high, low >>: overflow > 0 iff the sum
\* does not fit 32 bits.
RECURSIVE SumLimb(_, _)
SumLimb(ids, limb) ==
    IF ids = {} THEN 0
    ELSE LET id == CHOOSE x \in ids : TRUE
         IN  salaryEntries[id].encryptedSalary.pt[limb] + SumLimb(ids \ {id}, limb)
PlainSum(ids) ==
    LET low == SumLimb(ids, 2)
        high == SumLimb(ids, 1) + (low \div LimbBase)
    IN  << high \div LimbBase, high % LimbBase, low % LimbBase >>
Fits32(sum) == sum[1] = 0
AsU32(sum) == U32(sum[2], sum[3])
\* floor(sum / n) of an unbounded sum, by long division over its limbs
PlainDiv(sum, n) ==
    LET r1 == sum[1] % n
        r2 == (r1 * LimbBase + sum[2]) % n
    IN  << sum[1] \div n, (r1 * LimbBase + sum[2]) \div n, (r2 * LimbBase + sum[3]) \div n >>

\* C1: count[GLOBAL] (getActiveEntryCount) equals the number of owners that
\* currently have an active entry, after any sequence of submit/update/delete.
C1_GlobalCountIsActiveOwners ==
    getActiveEntryCount = Cardinality(OwnersWithActiveEntry)
\* two entries were submitted and one of them has been deleted since
C1_Witness ==
    /\ Cardinality(OwnersWithActiveEntry) = 1
    /\ getActiveEntryCount = 1
    /\ entryCount = 2
    /\ \E id \in EntryIds : id < entryCount /\ ~salaryEntries[id].isActive

\* C2: for every group key g, count[g] equals the number of currently active
\* entries whose group key is g.
C2_PositionCountIsActiveEntries ==
    \A p \in PositionInputs :
        getEncryptedPositionStats(p)[2] = Cardinality(ActiveEntriesAt(p))
\* an entry has moved to another group by update: a request for group p is
\* still pending, no entry was ever deleted, and p is empty now
C2_Witness ==
    \E p \in ValidPositions : \E r \in PendingAtOracle :
        /\ _positionStatsRequest[r] = keccak256(p)
        /\ _positionCount[keccak256(p)] = 0
        /\ entryCount >= 1
        /\ ActiveEntries = 0 .. (entryCount - 1)

\* C3: in every reachable state each owner has at most one active entry.
C3_AtMostOneActiveEntryPerOwner ==
    \A o \in Owners : Cardinality(ActiveEntriesOf(o)) <= 1
\* an owner deleted and re-submitted: an inactive and an active entry of theirs
C3_Witness ==
    \E o \in Owners : \E a, b \in EntryIds :
        /\ salaryEntries[a].submitter = o /\ ~salaryEntries[a].isActive
        /\ salaryEntries[b].submitter = o /\ salaryEntries[b].isActive

\* C4: every bucket (GLOBAL or group) with count > 0 holds a sum whose
\* plaintext is the arithmetic sum of the active entries contributing to the
\* key, as long as that sum fits 32 bits.
C4_BucketSumIsPlainSum ==
    /\ (_activeEntryCount > 0 /\ Fits32(PlainSum(ActiveEntries)))
          => _encryptedTotalSalary.pt = AsU32(PlainSum(ActiveEntries))
    /\ \A p \in PositionInputs :
          (_positionCount[keccak256(p)] > 0 /\ Fits32(PlainSum(ActiveEntriesAt(p))))
              => _encryptedPositionTotal[keccak256(p)].pt = AsU32(PlainSum(ActiveEntriesAt(p)))
\* the sole entry of the ledger has been updated and is the sole member of
\* its group p: the oracle still holds the total of p from before the update,
\* and the bucket of p now holds the new value
C4_Witness ==
    \E p \in ValidPositions : \E r \in PendingAtOracle :
        /\ entryCount = 1 /\ _activeEntryCount = 1
        /\ salaryEntries[0].position = p
        /\ _positionStatsRequest[r] = keccak256(p)
        /\ decryptionOracle[r].pt # salaryEntries[0].encryptedSalary.pt
        /\ _positionCount[keccak256(p)] = 1
        /\ _encryptedPositionTotal[keccak256(p)].pt = salaryEntries[0].encryptedSalary.pt
        /\ _encryptedTotalSalary.pt = salaryEntries[0].encryptedSalary.pt

IssuedRequestIds == 1 .. Len(decryptionOracle)

\* C5: rounding law under every interleaving - when a callback carrying the
\* oracle's decryption of the handle it was sent is accepted for a key, the
\* committed value is floor(S / n), S the sum of the entries active for the
\* key at that moment and n = count[key] (S fitting 32 bits).
C5_RoundingLawAtCallback ==
    [][\A r \in PendingAtOracle :
          /\ (globalStatsCallback(r, OracleCleartext(r)) /\ Fits32(PlainSum(ActiveEntries)))
                => _decryptedAverageSalary' =
                      AsU32(PlainDiv(PlainSum(ActiveEntries), _activeEntryCount))
          /\ \A p \in ValidPositions :
                (/\ positionStatsCallback(r, OracleCleartext(r))
                 /\ _positionStatsRequest[r] = keccak256(p)
                 /\ Fits32(PlainSum(ActiveEntriesAt(p))))
                => _decryptedPositionAverage'[keccak256(p)] =
                      AsU32(PlainDiv(PlainSum(ActiveEntriesAt(p)), _positionCount[keccak256(p)]))
      ]_vars

\* C6: an accepted callback that carries the true total of the key's bucket
\* makes getResult(key) return (floor(total / n), n), n the number of active
\* entries for the key.
C6_TrueTotalGivesFloorAverage ==
    [][\A r \in RequestIds : \A ct \in CleartextInputs(r) :
          /\ (/\ globalStatsCallback(r, ct)
              /\ Fits32(PlainSum(ActiveEntries))
              /\ DecodeCleartext(ct) = AsU32(PlainSum(ActiveEntries)))
                => getGlobalStats' =
                      << AsU32(PlainDiv(PlainSum(ActiveEntries), Cardinality(ActiveEntries))),
                         Cardinality(ActiveEntries) >>
          /\ \A p \in ValidPositions :
                (/\ positionStatsCallback(r, ct)
                 /\ _positionStatsRequest[r] = keccak256(p)
                 /\ Fits32(PlainSum(ActiveEntriesAt(p)))
                 /\ DecodeCleartext(ct) = AsU32(PlainSum(ActiveEntriesAt(p))))
                => getPositionStats(p)' =
                      << AsU32(PlainDiv(PlainSum(ActiveEntriesAt(p)),
                                        Cardinality(ActiveEntriesAt(p)))),
                         Cardinality(ActiveEntriesAt(p)) >>
      ]_vars
\* the global key is finalized over two entries whose total is odd, and the
\* stored average is the total halved and rounded down
C6_Witness ==
    /\ _statsFinalized
    /\ Cardinality(ActiveEntries) = 2
    /\ Fits32(PlainSum(ActiveEntries))
    /\ PlainSum(ActiveEntries)[3] % 2 = 1
    /\ getGlobalStats = << AsU32(PlainDiv(PlainSum(ActiveEntries), 2)), 2 >>

\* C7: replay protection - a callback whose request id is not recorded (never
\* issued, or consumed by an accepted callback) fails with 'Invalid request',
\* for the global and the per-group callback and whatever bytes it carries;
\* an id consumed by an accepted callback is never recorded again.
NeverIssued(r) == r \notin IssuedRequestIds
AnyCleartext == {ShortCleartext, ForgedCleartext} \cup {OracleCleartext(r) : r \in PendingAtOracle}
FailsInvalidRequest(r) ==
    \A ct \in AnyCleartext :
        /\ globalStatsCallbackRevert(r, ct) = "Invalid request"
        /\ positionStatsCallbackRevert(r, ct) = "Invalid request"
\* C7: the property, over every step and every request id
C7_ReplayRejected ==
    [][\A r \in RequestIds :
          /\ NeverIssued(r) => FailsInvalidRequest(r)
          /\ NeverIssued(r)' => FailsInvalidRequest(r)'
          /\ (\E ct \in CleartextInputs(r) :
                 globalStatsCallback(r, ct) \/ positionStatsCallback(r, ct))
                => FailsInvalidRequest(r)'
          /\ (~NeverIssued(r) /\ FailsInvalidRequest(r)) => FailsInvalidRequest(r)'
      ]_vars
\* a request id was issued and has been consumed by an accepted callback
C7_Witness ==
    \E r \in IssuedRequestIds :
        /\ FailsInvalidRequest(r)
        /\ _statsFinalized \/ \E h \in PositionHashes : _positionFinalized[h]

\* C8 (as claimed): once a key is finalized, every later requestDecryption
\* for it fails with AlreadyFinalized.
C8_FinalizedRejectsWithAlreadyFinalized ==
    /\ _statsFinalized => requestGlobalStatsRevert = "Stats already finalized"
    /\ \A p \in ValidPositions :
          _positionFinalized[keccak256(p)]
              => requestPositionStatsRevert(p) = "Position stats already finalized"
\* C8 (amended): once a key is finalized it stays finalized, its stored
\* average is never written again, and every later requestDecryption for it
\* fails - with AlreadyFinalized while count[key] > 0, with NoData when
\* count[key] is 0.
FinalizedRejectsRequests ==
    /\ _statsFinalized => requestGlobalStatsRevert =
          (IF _activeEntryCount > 0 THEN "Stats already finalized" ELSE "No data to decrypt")
    /\ \A p \in ValidPositions :
          _positionFinalized[keccak256(p)] => requestPositionStatsRevert(p) =
              (IF _positionCount[keccak256(p)] > 0 THEN "Position stats already finalized"
               ELSE "No data for this position")
\* C8 (amended): the property, over every step
C8_FinalizationIsTerminal ==
    [][/\ FinalizedRejectsRequests
       /\ FinalizedRejectsRequests'
       /\ _statsFinalized =>
             (_statsFinalized' /\ _decryptedAverageSalary' = _decryptedAverageSalary)
       /\ \A h \in PositionHashes :
             _positionFinalized[h] =>
                 (/\ _positionFinalized'[h]
                  /\ _decryptedPositionAverage'[h] = _decryptedPositionAverage[h])
      ]_vars
\* the global key is finalized and its count has since dropped to 0
C8_Witness ==
    /\ _statsFinalized /\ _activeEntryCount = 0
    /\ requestGlobalStatsRevert = "No data to decrypt"

\* C9: after a key is finalized, getResult(key) returns the same
\* (value, count) pair in every later state.
C9_FinalizedResultImmutable ==
    [][/\ _statsFinalized => getGlobalStats' = getGlobalStats
       /\ \A p \in ValidPositions :
             _positionFinalized[keccak256(p)] => getPositionStats(p)' = getPositionStats(p)
      ]_vars

\* C10: every handle that requestDecryption sends to the oracle is a derived
\* aggregate and never the plaintext of one single entry's value, also for a
\* key whose bucket has exactly one active entry.
SentToOracle == decryptionOracle[Len(decryptionOracle)]
\* C10: the property, over every request step
C10_NoIndividualValueDecrypted ==
    [][/\ requestGlobalStats =>
             \A id \in ActiveEntries :
                 ActiveEntries = {id} => SentToOracle'.pt # salaryEntries[id].encryptedSalary.pt
       /\ \A p \in ValidPositions :
             requestPositionStats(p) =>
                 \A id \in ActiveEntriesAt(p) :
                     ActiveEntriesAt(p) = {id}
                         => SentToOracle'.pt # salaryEntries[id].encryptedSalary.pt
      ]_vars

\* C11: whenever the last active entry of a group leaves it (by delete, or by
\* an update that moves it to another group), getEncryptedAggregate(group)
\* reports count = 0 and no sum handle.
C11_GroupBucketCleanup ==
    [][\A p \in ValidPositions :
          (ActiveEntriesAt(p) # {} /\ ActiveEntriesAt(p)' = {})
              => getEncryptedPositionStats(p)' = << NoHandle, 0 >>
      ]_vars
\* group q has lost its last entry by a move to p and group p by a delete
\* after it: an earlier request for q is pending, an inactive entry names p,
\* and both buckets are empty
C11_Witness ==
    \E p, q \in ValidPositions : \E id \in EntryIds : \E r \in PendingAtOracle :
        /\ p # q
        /\ id < entryCount /\ ~salaryEntries[id].isActive
        /\ salaryEntries[id].position = p
        /\ _positionStatsRequest[r] = keccak256(q)
        /\ getEncryptedPositionStats(p) = << NoHandle, 0 >>
        /\ getEncryptedPositionStats(q) = << NoHandle, 0 >>

\* C12: the same cleanup holds for the GLOBAL key - when count[GLOBAL]
\* reaches 0 the GLOBAL sum handle is destroyed and
\* getEncryptedAggregate(GLOBAL) reports count = 0 with no sum handle.
C12_GlobalBucketCleanup ==
    [][(_activeEntryCount > 0 /\ _activeEntryCount' = 0)
          => getEncryptedStats' = << NoHandle, 0 >>
      ]_vars

\* C13: requestDecryption(key) fails with NoData whenever the key has no
\* active entry (count[key] = 0), and otherwise with AlreadyFinalized whenever
\* the key is finalized; a failing request records nothing; a request that
\* does not fail records a request id that was not recorded before, mapped
\* to the key, and touches no other record.
RequestOutcome(hasData, finalized, noData, alreadyFinalized) ==
    IF ~hasData THEN noData ELSE IF finalized THEN alreadyFinalized ELSE NoRevert
RequestDecisionTable ==
    /\ requestGlobalStatsRevert =
          RequestOutcome(ActiveEntries # {}, _statsFinalized,
                         "No data to decrypt", "Stats already finalized")
    /\ \A p \in ValidPositions :
          requestPositionStatsRevert(p) =
              RequestOutcome(ActiveEntriesAt(p) # {}, _positionFinalized[keccak256(p)],
                             "No data for this position", "Position stats already finalized")
NotRecorded(r) == ~_globalStatsRequest[r] /\ _positionStatsRequest[r] = ZeroHash
InvalidGroupKey == {"Position cannot be empty", "Position too long"}
SubmitFailures(sender, input, position) ==
    /\ ActiveEntriesOf(sender) # {}
          => submitSalaryRevert(sender, input, position) = "Already submitted"
    /\ (ActiveEntriesOf(sender) = {} /\ Len(position) = 0)
          => submitSalaryRevert(sender, input, position) = "Position cannot be empty"
    /\ (ActiveEntriesOf(sender) = {} /\ Len(position) > MaxPositionLength)
          => submitSalaryRevert(sender, input, position) = "Position too long"
\* C14: the property, over every state, step, caller, input and key
C14_SubmitFailures ==
    /\ [](\A sender \in Owners, input \in ExternalInputs, position \in PositionInputs :
             SubmitFailures(sender, input, position))
    /\ [][/\ \A sender \in Owners, input \in ExternalInputs, position \in PositionInputs :
                (submitSalaryRevert(sender, input, position) # NoRevert
                    => ~submitSalary(sender, input, position))
          /\ entryCount' # entryCount =>
                \E creator \in Owners :
                    /\ ActiveEntriesOf(creator) = {}
                    /\ entryCount' = entryCount + 1
                    /\ salaryEntries'[entryCount].submitter = creator
                    /\ Len(salaryEntries'[entryCount].position) \in 1 .. MaxPositionLength
                    /\ \A id \in EntryIds \ {entryCount} :
                          salaryEntries'[id] = salaryEntries[id]
         ]_vars
\* one owner has an active entry, so their submit fails with AlreadySubmitted
\* whatever the key; another has none, and their submit fails with
\* InvalidGroupKey for the empty and for the 101-byte key
C14_Witness ==
    \E a, b \in Owners : \E input \in ExternalInputs :
        /\ ActiveEntriesOf(a) # {} /\ ActiveEntriesOf(b) = {}
        /\ input.proofValid
        /\ submitSalaryRevert(a, input, EmptyPosition) = "Already submitted"
        /\ submitSalaryRevert(a, input, LongPosition) = "Already submitted"
        /\ submitSalaryRevert(b, input, EmptyPosition) \in InvalidGroupKey
        /\ submitSalaryRevert(b, input, LongPosition) \in InvalidGroupKey
        /\ entryCount = 1

\* C15: a second submitSalary by an address that already has an active entry
\* reverts with exactly the reason 'Already submitted. Use updateSalary
\* instead'.
C15_DuplicateSubmissionReason ==
    \A sender \in Owners, input \in ExternalInputs, position \in PositionInputs :
        ActiveEntriesOf(sender) # {}
            => submitSalaryRevert(sender, input, position) =
                  "Already submitted. Use updateSalary instead"

\* C16: update and delete called by an owner with no active entry (never
\* submitted, or submitted and later deleted) fail with NoEntry ('No entry to
\* update' / 'No entry to delete'); such a call is no step, and every step
\* that changes an existing entry changes one that was active.
NoEntryFailures(sender) ==
    ActiveEntriesOf(sender) = {} =>
        /\ deleteSalaryRevert(sender) = "No entry to delete"
        /\ \A input \in ExternalInputs, position \in PositionInputs :
              updateSalaryRevert(sender, input, position) = "No entry to update"
\* C16: the property, over every state, step and caller
C16_NoEntryFailures ==
    /\ [](\A sender \in Owners : NoEntryFailures(sender))
    /\ [][/\ \A sender \in Owners :
                ActiveEntriesOf(sender) = {} =>
                    /\ ~deleteSalary(sender)
                    /\ \A input \in ExternalInputs, position \in PositionInputs :
                          ~updateSalary(sender, input, position)
          /\ \A id \in EntryIds :
                (id < entryCount /\ salaryEntries'[id] # salaryEntries[id])
                    => salaryEntries[id].isActive
         ]_vars
\* one owner submitted and deleted, the other never submitted: neither has
\* an active entry, and update and delete fail with NoEntry for both
C16_Witness ==
    \E a, b \in Owners :
        /\ a # b
        /\ \E id \in EntryIds : salaryEntries[id].submitter = a /\ ~salaryEntries[id].isActive
        /\ \A id \in EntryIds : salaryEntries[id].submitter # b
        /\ ActiveEntries = {} /\ entryCount = 1
        /\ deleteSalaryRevert(a) = "No entry to delete"
        /\ deleteSalaryRevert(b) = "No entry to delete"
        /\ \E input \in ExternalInputs, position \in ValidPositions :
              /\ updateSalaryRevert(a, input, position) = "No entry to update"
              /\ updateSalaryRevert(b, input, position) = "No entry to update"

\* C17: a successful update that changes an entry's group from A to B
\* (A # B) decrements count[A] by one, increments count[B] by one and leaves
\* count[GLOBAL] and every other group's count unchanged; when A = B every
\* count is unchanged.
CountOf(position) == getEncryptedPositionStats(position)[2]
\* the count of a group after the step (the group is named in the state
\* before the step)
CountAfterOf(position) == _positionCount'[keccak256(position)]
C17_UpdateCountFrame ==
    [][\A sender \in Owners, input \in ExternalInputs, B \in PositionInputs :
          updateSalary(sender, input, B) =>
              LET A == salaryEntries[userEntryId[sender]].position
              IN  /\ getActiveEntryCount' = getActiveEntryCount
                  /\ A # B => /\ CountAfterOf(A) = CountOf(A) - 1
                              /\ CountAfterOf(B) = CountOf(B) + 1
                  /\ \A other \in PositionInputs :
                        (A = B \/ other \notin {A, B})
                            => CountAfterOf(other) = CountOf(other)
      ]_vars
\* the ledger's one entry has moved from group A to group B: a request
\* issued for A while it had the entry is pending, count[A] is 0, count[B]
\* and count[GLOBAL] are 1
C17_Witness ==
    \E A, B \in ValidPositions : \E r \in PendingAtOracle :
        /\ A # B
        /\ _positionStatsRequest[r] = keccak256(A)
        /\ entryCount = 1 /\ salaryEntries[0].isActive
        /\ salaryEntries[0].position = B
        /\ CountOf(A) = 0 /\ CountOf(B) = 1
        /\ getActiveEntryCount = 1

\* C18: a successful update mutates the owner's entry in place - the owner's
\* entry id and the total entryCount are unchanged, the entry stays active
\* with the same submitter and holds the new value, getEntry(id) reports the
\* new group key, and no other entry changes.
C18_UpdateInPlace ==
    [][\A sender \in Owners, input \in ExternalInputs, newPosition \in PositionInputs :
          updateSalary(sender, input, newPosition) =>
              /\ userEntryId' = userEntryId
              /\ getEntryCount' = getEntryCount
              /\ \A id \in EntryIds :
                    IF id = userEntryId[sender]
                    THEN /\ getEntry(id) = << getEntry(id)[1], sender, TRUE >>
                         /\ getEntry(id)' = << newPosition, sender, TRUE >>
                         /\ salaryEntries'[id].encryptedSalary = FHE_fromExternal(input.value)
                    ELSE salaryEntries'[id] = salaryEntries[id]
      ]_vars
\* the ledger's one entry has been updated: the oracle was sent the global
\* total before the update and the entry's value differs from it now; the
\* entry has the id it was created with and is active
C18_Witness ==
    \E o \in Owners : \E p \in ValidPositions : \E r \in PendingAtOracle :
        /\ _globalStatsRequest[r]
        /\ getEntryCount = 1 /\ userEntryId[o] = 0
        /\ getEntry(0) = << p, o, TRUE >>
        /\ decryptionOracle[r].pt # salaryEntries[0].encryptedSalary.pt

\* C19: entry identities are fresh and never reactivated - every successful
\* submit allocates an id never used before (entryCount strictly increases),
\* a re-submission after delete gets a new id, and an entry that has become
\* inactive stays inactive in every later state.
UsedEntryIds == {id \in EntryIds : salaryEntries[id] # NoEntry}
C19_FreshEntryIdentity ==
    /\ [](UsedEntryIds = {id \in EntryIds : id < entryCount})
    /\ [][/\ entryCount' >= entryCount
          /\ \A sender \in Owners, input \in ExternalInputs, position \in PositionInputs :
                submitSalary(sender, input, position) =>
                    /\ entryCount' > entryCount
                    /\ userEntryId'[sender] \notin UsedEntryIds
                    /\ UsedEntryIds' = UsedEntryIds \cup {userEntryId'[sender]}
                    /\ salaryEntries'[userEntryId'[sender]].isActive
          /\ \A id \in UsedEntryIds :
                /\ salaryEntries'[id].submitter = salaryEntries[id].submitter
                /\ ~salaryEntries[id].isActive => salaryEntries'[id] = salaryEntries[id]
         ]_vars
\* an owner submitted, deleted and submitted again: their first entry is
\* inactive and they are registered under a later, active entry
C19_Witness ==
    \E o \in Owners : \E old, new \in EntryIds :
        /\ old < new /\ entryCount = new + 1
        /\ salaryEntries[old].submitter = o /\ ~salaryEntries[old].isActive
        /\ salaryEntries[new].submitter = o /\ salaryEntries[new].isActive
        /\ userEntryId[o] = new /\ hasSubmitted[o]

\* The tier tables of the score classifier: base value, and the reward of
\* each threshold, thresholds ascending.
IncomeTable ==
    [base |-> 25,
     tiers |-> << <<1499, 50>>, <<2999, 100>>, <<4999, 150>>, <<7499, 200>>, <<9999, 250>> >>]
RepaymentTable ==
    [base |-> 100,
     tiers |-> << <<59, 150>>, <<69, 200>>, <<79, 250>>, <<89, 300>>, <<94, 350>> >>]
DebtTable ==
    [base |-> 250,
     tiers |-> << <<19, 200>>, <<29, 150>>, <<39, 100>>, <<49, 50>>, <<64, 25>> >>]
HistoryTable ==
    [base |-> 10,
     tiers |-> << <<11, 30>>, <<35, 60>>, <<59, 90>>, <<83, 120>>, <<119, 150>> >>]
\* a 32-bit metric strictly exceeds a threshold below 2^16
Exceeds(metric, threshold) == metric[1] > 0 \/ metric[2] > threshold
\* the reward of the highest threshold strictly exceeded, or the base value
TierReward(table, metric) ==
    LET exceeded == {i \in 1 .. Len(table.tiers) : Exceeds(metric, table.tiers[i][1])}
    IN  IF exceeded = {} THEN table.base
        ELSE table.tiers[CHOOSE i \in exceeded : \A j \in exceeded : j <= i][2]
ReferenceScore(profile) ==
    TierReward(IncomeTable, profile.encryptedIncome.pt)
        + TierReward(RepaymentTable, profile.encryptedRepaymentRate.pt)
        + TierReward(DebtTable, profile.encryptedDebtRatio.pt)
        + TierReward(HistoryTable, profile.encryptedCreditHistory.pt)
IsExampleProfile(profile) ==
    /\ profile.encryptedIncome.pt = U32(0, ExampleIncome)
    /\ profile.encryptedRepaymentRate.pt = U32(0, ExampleRepaymentRate)
    /\ profile.encryptedDebtRatio.pt = U32(0, ExampleDebtRatio)
    /\ profile.encryptedCreditHistory.pt = U32(0, ExampleCreditHistory)

\* C20: for every metric tuple, calculateScore produces the sum of four tier
\* values, each the table reward of the highest threshold strictly exceeded
\* by the metric (or the base value when none is); (6000, 92, 25, 36) gives
\* 150 + 300 + 200 + 60 = 710; the select cascade agrees with the reference
\* lookup at every threshold boundary.
C20_ScoreIsSumOfTierRewards ==
    [][\A sender \in Owners :
          calculateScore(sender) =>
              LET profile == creditProfiles[sender]
                  score == creditProfiles'[sender].encryptedScore.pt
              IN  /\ _calculateIncomeScore(profile.encryptedIncome).pt =
                        U32(0, TierReward(IncomeTable, profile.encryptedIncome.pt))
                  /\ _calculateRepaymentScore(profile.encryptedRepaymentRate).pt =
                        U32(0, TierReward(RepaymentTable, profile.encryptedRepaymentRate.pt))
                  /\ _calculateDebtScore(profile.encryptedDebtRatio).pt =
                        U32(0, TierReward(DebtTable, profile.encryptedDebtRatio.pt))
                  /\ _calculateHistoryScore(profile.encryptedCreditHistory).pt =
                        U32(0, TierReward(HistoryTable, profile.encryptedCreditHistory.pt))
                  /\ score = U32(0, ReferenceScore(profile))
                  /\ IsExampleProfile(profile) => score = U32(0, 150 + 300 + 200 + 60)
      ]_vars
\* the score of the profile (6000, 92, 25, 36) has been calculated and is 710
C20_Witness ==
    \E o \in Owners :
        /\ IsExampleProfile(creditProfiles[o])
        /\ creditProfiles[o].scoreCalculated
        /\ creditProfiles[o].encryptedScore = [pt |-> U32(0, 710), kind |-> "ciphertext"]

\* C21: for all 32-bit metric values the composite score computed by
\* calculateScore lies in [0, 1000], and none of the three additions that
\* form it exceeds the 32-bit range.
AddOverflows(a, b) ==
    a.pt[1] + b.pt[1] + ((a.pt[2] + b.pt[2]) \div LimbBase) >= LimbBase
InScoreRange(score) == score.pt[1] = 0 /\ score.pt[2] \in 0 .. MaxScore
C21_ScoreInRange ==
    [][\A sender \in Owners :
          calculateScore(sender) =>
              LET profile == creditProfiles[sender]
                  incomeScore == _calculateIncomeScore(profile.encryptedIncome)
                  repaymentScore == _calculateRepaymentScore(profile.encryptedRepaymentRate)
                  debtScore == _calculateDebtScore(profile.encryptedDebtRatio)
                  historyScore == _calculateHistoryScore(profile.encryptedCreditHistory)
                  sum1 == FHE_add(incomeScore, repaymentScore)
                  sum2 == FHE_add(sum1, debtScore)
              IN  /\ ~AddOverflows(incomeScore, repaymentScore)
                  /\ ~AddOverflows(sum1, debtScore)
                  /\ ~AddOverflows(sum2, historyScore)
                  /\ InScoreRange(creditProfiles'[sender].encryptedScore)
      ]_vars
\* the largest score: income, repayment rate and history are 2^32 - 1, the
\* debt ratio is 0, and the score calculated is exactly 1000
C21_Witness ==
    \E o \in Owners :
        /\ creditProfiles[o].scoreCalculated
        /\ creditProfiles[o].encryptedIncome.pt = Uint32Max
        /\ creditProfiles[o].encryptedRepaymentRate.pt = Uint32Max
        /\ creditProfiles[o].encryptedCreditHistory.pt = Uint32Max
        /\ creditProfiles[o].encryptedDebtRatio.pt = Uint32Zero
        /\ creditProfiles[o].encryptedScore.pt = U32(0, MaxScore)

\* ---------------------------------------------------------------- C22
CalculateFailures ==
    \A sender \in Owners :
        LET profile == creditProfiles[sender]
            reason == calculateScoreRevert(sender)
        IN  /\ (reason = "No active profile found") = ~profile.isActive
            /\ (reason = "Score already calculated") =
                    (profile.isActive /\ profile.scoreCalculated)
            /\ (reason = NoRevert) = (profile.isActive /\ ~profile.scoreCalculated)

MetricsWritten(sender) ==
    \E input \in ProfileInputs : createProfile(sender, input) \/ updateProfile(sender, input)

C23_UpdateResetsScore ==
    [][\A sender \in Owners, input \in ProfileInputs :
          updateProfile(sender, input) =>
              /\ ~creditProfiles'[sender].scoreCalculated
              /\ ~_scoreFinalized'[sender]
              /\ \A caller \in Owners :
                    getDecryptedScoreRevert(caller, sender)' =
                        "Score not available yet. Request decryption first"
              /\ calculateScoreRevert(sender)' = NoRevert]_vars

\* an active profile whose score was computed and decrypted before, and is
\* now neither calculated nor finalized
C23_Witness ==
    \E sender \in Owners :
        /\ creditProfiles[sender].isActive
        /\ ~creditProfiles[sender].scoreCalculated
        /\ ~_scoreFinalized[sender]
        /\ creditProfiles[sender].encryptedScore # NoHandle
        /\ _decryptedScores[sender] # Uint32Zero
        /\ calculateScoreRevert(sender) = NoRevert

\* ---------------------------------------------------------------- C24
\* C24: in every reachable state an owner's score is finalized only if that
\* owner's scoreCalculated flag is set.
C24_FinalizedOnlyIfCalculated ==
    \A owner \in Owners : _scoreFinalized[owner] => creditProfiles[owner].scoreCalculated

\* ---------------------------------------------------------------- C25
ActiveProfiles == {o \in Owners : creditProfiles[o].isActive}

\* C25: activeProfileCount equals the number of owners whose profile is
\* active in every reachable state; a createProfile step adds one, a
\* deleteProfile step subtracts one, an updateProfile step leaves it unchanged.
C25_ActiveProfileCount ==
    /\ [](getActiveProfileCount = Cardinality(ActiveProfiles))
    /\ [][\A sender \in Owners :
            /\ \A input \in ProfileInputs :
                  /\ createProfile(sender, input) =>
                        activeProfileCount' = activeProfileCount + 1
                  /\ updateProfile(sender, input) =>
                        activeProfileCount' = activeProfileCount
            /\ deleteProfile(sender) => activeProfileCount' = activeProfileCount - 1]_vars

\* one owner active, another created and deleted: the count is back to one
C25_Witness ==
    /\ activeProfileCount = 1
    /\ \E o \in Owners : creditProfiles[o].isActive
    /\ \E o \in Owners : ~creditProfiles[o].isActive /\ creditProfiles[o].owner = o

\* ---------------------------------------------------------------- C26
\* C26: createProfile called by an owner whose profile is active reverts
\* with exactly the reason 'Profile already exists'.
C26_DuplicateProfileReason ==
    \A sender \in Owners, input \in ProfileInputs :
        creditProfiles[sender].isActive
            => createProfileRevert(sender, input) = "Profile already exists"

\* ---------------------------------------------------------------- C27
\* C27: a callback that carries a recorded request id of a key that is not
\* finalized, with a cleartext shorter than 4 bytes, fails with 'Invalid
\* cleartext length' whatever the key's count is.
C27_ShortCleartextReason ==
    \A requestId \in RequestIds :
        /\ (_globalStatsRequest[requestId] /\ ~_statsFinalized)
              => globalStatsCallbackRevert(requestId, ShortCleartext) =
                    "Invalid cleartext length"
        /\ (/\ _positionStatsRequest[requestId] # ZeroHash
            /\ ~_positionFinalized[_positionStatsRequest[requestId]])
              => positionStatsCallbackRevert(requestId, ShortCleartext) =
                    "Invalid cleartext length"

\* ---------------------------------------------------------------- C28
\* C28: in no reachable state does a callback with a recorded request id of
\* a key that is not finalized find the key's count at 0: no callback is
\* refused with 'No active entries' or 'No data'.
C28_CountGuardUnreachable ==
    \A requestId \in RequestIds : \A cleartexts \in CleartextInputs(requestId) :
        /\ globalStatsCallbackRevert(requestId, cleartexts) # "No active entries"
        /\ positionStatsCallbackRevert(requestId, cleartexts) # "No data"

\* ---------------------------------------------------------------- C29
\* two request ids recorded for one key, both pending
BothPendingGlobal(r1, r2) ==
    r1 # r2 /\ _globalStatsRequest[r1] /\ _globalStatsRequest[r2]
BothPendingPosition(r1, r2) ==
    /\ r1 # r2
    /\ _positionStatsRequest[r1] # ZeroHash
    /\ _positionStatsRequest[r1] = _positionStatsRequest[r2]

\* C29 (as stated): when two requests for one key are both pending, the
\* callback for the second id is still accepted after the callback for the
\* first has been accepted, so that the callback arriving last decides the
\* key's result.
C29_LastCallbackWins ==
    [][\A r1, r2 \in RequestIds : \A cleartexts \in CleartextInputs(r1) :
          /\ (BothPendingGlobal(r1, r2) /\ globalStatsCallback(r1, cleartexts))
                => globalStatsCallbackRevert(r2, ForgedCleartext)' = NoRevert
          /\ (BothPendingPosition(r1, r2) /\ positionStatsCallback(r1, cleartexts))
                => positionStatsCallbackRevert(r2, ForgedCleartext)' = NoRevert
      ]_vars

\* C29 (amended): when two requests for one key are both pending, the
\* callback that arrives first is accepted and finalizes the key with its
\* own average; from then on every callback for the other request id fails
\* with 'Already finalized', that id stays recorded, and the stored average
\* is never written again.
C29_FirstCallbackWins ==
    [][/\ \A r1, r2 \in RequestIds : \A cleartexts \in CleartextInputs(r1) :
            /\ (BothPendingGlobal(r1, r2) /\ globalStatsCallback(r1, cleartexts)) =>
                  /\ _statsFinalized'
                  /\ _decryptedAverageSalary' = globalAverage(DecodeCleartext(cleartexts))
                  /\ _globalStatsRequest'[r2]
                  /\ \A later \in CleartextInputs(r2) :
                        globalStatsCallbackRevert(r2, later)' = "Already finalized"
            /\ (BothPendingPosition(r1, r2) /\ positionStatsCallback(r1, cleartexts)) =>
                  LET positionHash == _positionStatsRequest[r1]
                  IN  /\ _positionFinalized'[positionHash]
                      /\ _decryptedPositionAverage'[positionHash] =
                            positionAverage(DecodeCleartext(cleartexts),
                                            _positionCount[positionHash])
                      /\ _positionStatsRequest'[r2] = positionHash
                      /\ \A later \in CleartextInputs(r2) :
                            positionStatsCallbackRevert(r2, later)' = "Already finalized"
       /\ _statsFinalized => _decryptedAverageSalary' = _decryptedAverageSalary
       /\ \A h \in PositionHashes :
             _positionFinalized[h] => _decryptedPositionAverage'[h] = _decryptedPositionAverage[h]
      ]_vars

\* the global key was finalized by one of two pending callbacks and the other
\* request id, still recorded, is refused
C29_Witness ==
    /\ _statsFinalized
    /\ _activeEntryCount > 0
    /\ \E r \in RequestIds :
          /\ _globalStatsRequest[r]
          /\ globalStatsCallbackRevert(r, ForgedCleartext) = "Already finalized"

\* ---------------------------------------------------------------- C30
\* C30: a request id is recorded only while its key is pending: in every
\* reachable state no request id is recorded for a key that is finalized.
C30_NoRequestForFinalizedKey ==
    \A requestId \in RequestIds :
        /\ _globalStatsRequest[requestId] => ~_statsFinalized
        /\ _positionStatsRequest[requestId] # ZeroHash
              => ~_positionFinalized[_positionStatsRequest[requestId]]

\* ---------------------------------------------------------------- C31
\* C31: after every successful submitSalary or updateSalary the caller holds
\* view permission on the handle now stored in their entry, and in every
\* reachable state the addresses granted an entry's value handle are at most
\* the entry's submitter and the contract itself.
C31_ValueHandleAccess ==
    \A id \in EntryIds :
        /\ salaryACL[id] \subseteq {salaryEntries[id].submitter, ThisContract}
        /\ salaryEntries[id].isActive => salaryEntries[id].submitter \in salaryACL[id]

\* two owners with an active entry each, each granted their own handle only
C31_Witness ==
    \E a, b \in Owners :
        /\ a # b
        /\ ActiveEntriesOf(a) # {} /\ ActiveEntriesOf(b) # {}
        /\ salaryACL[userEntryId[a]] = {a, ThisContract}
        /\ salaryACL[userEntryId[b]] = {b, ThisContract}

\* ---------------------------------------------------------------- C32
\* everything the ledger keeps for owners other than sender is as before
OthersUntouched(sender) ==
    /\ \A id \in EntryIds :
          salaryEntries[id].submitter # sender =>
              /\ salaryEntries'[id] = salaryEntries[id]
              /\ salaryACL'[id] = salaryACL[id]
    /\ \A other \in Owners \ {sender} :
          /\ hasSubmitted'[other] = hasSubmitted[other]
          /\ userEntryId'[other] = userEntryId[other]

\* C32: an updateSalary or deleteSalary step by one owner leaves every other
\* owner's entry (value handle, position, active flag), submitted flag and
\* entry id unchanged.
C32_OnlySubmitterChangesEntry ==
    [][\A sender \in Owners :
          /\ deleteSalary(sender) => OthersUntouched(sender)
          /\ \A input \in ExternalInputs, position \in PositionInputs :
                updateSalary(sender, input, position) => OthersUntouched(sender)]_vars

\* one owner has deleted their entry while another owner's entry is active
C32_Witness ==
    \E a, b \in Owners :
        /\ a # b
        /\ ~hasSubmitted[a]
        /\ salaryEntries[userEntryId[a]].submitter = a
        /\ ~salaryEntries[userEntryId[a]].isActive
        /\ hasSubmitted[b]
        /\ salaryEntries[userEntryId[b]].submitter = b
        /\ salaryEntries[userEntryId[b]].isActive

\* ---------------------------------------------------------------- C33
\* the 32-bit sum of every bucket is the arithmetic sum of its active
\* entries' values reduced modulo 2^32
SumsAreCongruent ==
    /\ _encryptedTotalSalary.pt = AsU32(PlainSum(ActiveEntries))
    /\ \A p \in PositionInputs :
          _encryptedPositionTotal[keccak256(p)].pt = AsU32(PlainSum(ActiveEntriesAt(p)))

\* a submitSalary or updateSalary call is refused for no reason that depends
\* on the size of the sums
NoOverflowFailure ==
    \A sender \in Owners, input \in ExternalInputs, position \in ValidPositions :
        input.proofValid =>
            /\ ~hasSubmitted[sender] => submitSalaryRevert(sender, input, position) = NoRevert
            /\ ActiveEntriesOf(sender) # {} =>
                  updateSalaryRevert(sender, input, position) = NoRevert

\* C33: the sums are unchecked 32-bit values: a submit or update that pushes
\* a bucket's sum past 2^32 - 1 succeeds and the sum wraps, and in every
\* reachable state, also after later removes, each bucket's sum is congruent
\* modulo 2^32 to the arithmetic sum of its active entries' values.
C33_SumsWrapModulo32 == SumsAreCongruent /\ NoOverflowFailure

\* the active entries of one group add up to more than 2^32 - 1, and both
\* the global and the group sum have wrapped
C33_Witness ==
    \E p \in ValidPositions :
        /\ ~Fits32(PlainSum(ActiveEntriesAt(p)))
        /\ _encryptedPositionTotal[keccak256(p)].pt = AsU32(PlainSum(ActiveEntriesAt(p)))
        /\ _encryptedTotalSalary.pt = AsU32(PlainSum(ActiveEntries))
        /\ _encryptedTotalSalary.pt # Uint32Max

\* ---------------------------------------------------------------- C34
\* what an observer triggered by the event reads from the contract while
\* the callback that emitted it is still running
ObservedCommitted ==
    LET requestId == callFrame.requestId
        key == callFrame.key
    IN  CASE callFrame.fn = "globalStatsCallback" ->
                /\ _statsFinalized
                /\ ~_globalStatsRequest[requestId]
                /\ _decryptedAverageSalary = globalAverage(callFrame.value)
                /\ \A i \in 1 .. Len(callFrame.events) :
                      callFrame.events[i].average = _decryptedAverageSalary
          [] callFrame.fn = "positionStatsCallback" ->
                /\ _positionFinalized[key]
                /\ _positionStatsRequest[requestId] = ZeroHash
                /\ _decryptedPositionAverage[key] =
                      positionAverage(callFrame.value, _positionCount[key])
                /\ \A i \in 1 .. Len(callFrame.events) :
                      callFrame.events[i].average = _decryptedPositionAverage[key]
          [] callFrame.fn = "scoreDecryptionCallback" ->
                /\ _scoreFinalized[key]
                /\ _decryptionRequests[requestId] = ZeroAddress
                /\ _decryptedScores[key] = callFrame.value
                /\ \A i \in 1 .. Len(callFrame.events) :
                      callFrame.events[i].average = _decryptedScores[key]

\* C34: in an accepted callback (global, position or score) the result is
\* stored, the key is marked finalized and the request id is deleted before
\* the notification is emitted: in every state in which the running callback
\* has emitted its event, the key is fully finalized and the request id is
\* no longer recorded.
C34_CommittedBeforeEmit ==
    (callFrame # NoFrame /\ callFrame.events # << >>) => ObservedCommitted

\* the global callback has just emitted StatsPublished and has not returned
C34_Witness ==
    /\ callFrame # NoFrame
    /\ callFrame.fn = "globalStatsCallback"
    /\ Len(callFrame.events) = 1
    /\ callFrame.events[1].name = "StatsPublished"
    /\ _statsFinalized

\* ---------------------------------------------------------------- C35
\* b[1]*2^24 + b[2]*2^16 + b[3]*2^8 + b[4] for a byte sequence b, by Horner's
\* rule on 32-bit values: acc * 2^8 + byte, four times
ShiftInByte(acc, byte) ==
    U32(((acc[1] % ByteBase) * ByteBase) + (acc[2] \div ByteBase),
        ((acc[2] % ByteBase) * ByteBase) + byte)
BigEndianValue(b) ==
    ShiftInByte(ShiftInByte(ShiftInByte(ShiftInByte(Uint32Zero, b[1]), b[2]), b[3]), b[4])

\* C35: the callback decodes the total as the big-endian unsigned 32-bit
\* integer formed by the first 4 bytes of the cleartext; bytes after the
\* fourth do not influence it.  With one entry in the bucket the stored
\* average is the decoded total itself.
C35_BigEndianDecoding ==
    /\ \A b \in DecodeInputs :
          /\ DecodeCleartext(b) = BigEndianValue(b)
          /\ DecodeCleartext(b) = DecodeCleartext(SubSeq(b, 1, MinCleartextLength))
    /\ [][\A requestId \in RequestIds, b \in DecodeInputs :
            /\ globalStatsCallback(requestId, b)
                  => _decryptedAverageSalary' = BigEndianValue(b)
            /\ positionStatsCallback(requestId, b)
                  => _decryptedPositionAverage'[_positionStatsRequest[requestId]] =
                        BigEndianValue(b)]_vars

\* the callback stored 128 * 2^24 + 1, above 2^31
C35_Witness ==
    /\ _statsFinalized
    /\ _decryptedAverageSalary = U32((ByteBase \div 2) * ByteBase, 1)

\* ---------------------------------------------------------------- C36
\* C36: in every reachable state hasSubmitted[o] holds exactly when the entry
\* at userEntryId[o] is active and was submitted by o; hence updateSalary
\* never fails with 'Entry not active' and deleteSalary never fails with
\* 'Entry already deleted'.
C36_SubmittedIffActiveEntry ==
    /\ \A o \in Owners :
          hasSubmitted[o] = (/\ salaryEntries[userEntryId[o]].isActive
                             /\ salaryEntries[userEntryId[o]].submitter = o)
    /\ \A sender \in Owners :
          /\ deleteSalaryRevert(sender) # "Entry already deleted"
          /\ \A input \in ExternalInputs, position \in PositionInputs :
                updateSalaryRevert(sender, input, position) # "Entry not active"

\* an owner whose entry was deleted: the flag is clear, userEntryId still
\* names the inactive entry, and both calls fail on the flag
C36_Witness ==
    \E o \in Owners :
        /\ ~hasSubmitted[o]
        /\ salaryEntries[userEntryId[o]].submitter = o
        /\ ~salaryEntries[userEntryId[o]].isActive
        /\ deleteSalaryRevert(o) = "No entry to delete"
        /\ \E p \in Owners : hasSubmitted[p]

\* ---------------------------------------------------------------- C37
\* C37: for an owner with an active entry deleteSalary succeeds, and
\* updateSalary with a valid position (and a valid input proof) succeeds: the
\* global count and the count of the entry's group are at least 1, and no
\* call of either function, by anyone, fails on a count decrement.
C37_NoCountUnderflow ==
    \A sender \in Owners :
        /\ deleteSalaryRevert(sender) # ArithmeticPanic
        /\ \A input \in ExternalInputs, position \in PositionInputs :
              updateSalaryRevert(sender, input, position) # ArithmeticPanic
        /\ \A id \in ActiveEntriesOf(sender) :
              /\ _activeEntryCount >= 1
              /\ _positionCount[keccak256(salaryEntries[id].position)] >= 1
              /\ deleteSalaryRevert(sender) = NoRevert
              /\ \A input \in ExternalInputs, position \in ValidPositions :
                    input.proofValid =>
                        updateSalaryRevert(sender, input, position) = NoRevert

\* an active entry that is the last of the ledger and of its group, left
\* after another owner's entry was deleted
C37_Witness ==
    \E sender \in Owners : \E id \in ActiveEntriesOf(sender) :
        /\ _activeEntryCount = 1
        /\ _positionCount[keccak256(salaryEntries[id].position)] = 1
        /\ entryCount = 2
        /\ deleteSalaryRevert(sender) = NoRevert

\* ---------------------------------------------------------------- C38
\* C38: in every reachable state a decrypted score is readable through
\* getDecryptedScore only for an owner whose profile is active: an owner
\* whose profile was deleted is never finalized.
C38_FinalizedOnlyIfActive ==
    \A user \in Owners :
        getDecryptedScoreRevert(user, user) = NoRevert => hasProfile(user)

\* ---------------------------------------------------------------- C39
\* from here on no submitSalary, updateSalary or deleteSalary step occurs
LedgerQuiet == [][UNCHANGED << ledgerVars, aggregateVars >>]_vars
\* every key with a recorded request and a count above 0 is finalized
PendingKeysSettled ==
    /\ (\E r \in RequestIds : _globalStatsRequest[r]) /\ _activeEntryCount > 0
          => _statsFinalized
    /\ \A r \in RequestIds :
          LET positionHash == _positionStatsRequest[r]
          IN  (positionHash # ZeroHash /\ _positionCount[positionHash] > 0)
                  => _positionFinalized[positionHash]

\* C39: with an oracle that eventually delivers a callback of at least 4
\* bytes for every issued request id, if from some point on no submit,
\* update or delete occurs, then every key that has a pending request and a
\* count above 0 eventually is finalized and stays so.
C39_PendingKeysFinalize ==
    (<>LedgerQuiet) => <>[]PendingKeysSettled

\* a key was requested while it had entries and has been finalized by the
\* delivery; its entries are still there
C39_Witness ==
    /\ _statsFinalized
    /\ _activeEntryCount > 0
    /\ \E r \in 1 .. Len(decryptionOracle) : decryptionOracle[r] = Fulfilled
    /\ \A r \in RequestIds : ~_globalStatsRequest[r]

\* ---------------------------------------------------------------- C40
\* the request ids other than requestId are recorded as before
OtherRequestsKept(requestId) ==
    \A r \in RequestIds \ {requestId} :
        /\ _globalStatsRequest'[r] = _globalStatsRequest[r]
        /\ _positionStatsRequest'[r] = _positionStatsRequest[r]

\* C40: an accepted callback for a key changes only that key's stored
\* average, that key's finalized flag and its own request-id record: the
\* entries, all counts and sums, the results of every other key and all other
\* recorded request ids are unchanged.  A request id is recorded for the
\* global key or for a group, never both, and finalizes the key it is
\* recorded for only.
C40_CallbackFrame ==
    /\ [](\A r \in RequestIds :
            /\ ~(_globalStatsRequest[r] /\ _positionStatsRequest[r] # ZeroHash)
            /\ \A cleartexts \in CleartextInputs(r) :
                  /\ _positionStatsRequest[r] # ZeroHash
                        => globalStatsCallbackRevert(r, cleartexts) = "Invalid request"
                  /\ _globalStatsRequest[r]
                        => positionStatsCallbackRevert(r, cleartexts) = "Invalid request")
    /\ [][\A r \in RequestIds : \A cleartexts \in CleartextInputs(r) :
            /\ globalStatsCallback(r, cleartexts) =>
                  /\ UNCHANGED << ledgerVars, aggregateVars, positionStatsVars >>
                  /\ OtherRequestsKept(r)
            /\ positionStatsCallback(r, cleartexts) =>
                  /\ UNCHANGED << ledgerVars, aggregateVars, globalStatsVars >>
                  /\ OtherRequestsKept(r)
                  /\ \A h \in PositionHashes \ {_positionStatsRequest[r]} :
                        /\ _decryptedPositionAverage'[h] = _decryptedPositionAverage[h]
                        /\ _positionFinalized'[h] = _positionFinalized[h]]_vars

\* the global key is finalized while a request recorded for a group is still
\* pending and the group is not finalized
C40_Witness ==
    /\ _statsFinalized
    /\ \E r \in RequestIds :
          /\ _positionStatsRequest[r] # ZeroHash
          /\ ~_positionFinalized[_positionStatsRequest[r]]
          /\ globalStatsCallbackRevert(r, ForgedCleartext) = "Invalid request"
====
